---------------------------- MODULE Spec2Model ----------------------------
(***************************************************************************)
(* The sharded buffer cache of src/unnamed/part_002 (bcache with NBUCKETS  *)
(* hash chains, one LRU list and one spinlock per bucket, and cross-bucket *)
(* victim stealing), as a state machine of kernel threads calling bread,   *)
(* bwrite, brelse, bpin and bunpin.                                        *)
(*                                                                         *)
(* Granularity.  A step is a run of loads and stores of one thread that no *)
(* other thread can observe in part.  A spinlock acquire is a step of its  *)
(* own.  A read-modify-write of b->refcnt is two steps (the load into      *)
(* rd[t], then the store), because bpin/bunpin update refcnt under         *)
(* bcache.lock while bget/brelse update it under a bucket lock.  The       *)
(* btable_insert of the steal path is two steps (find_ptr, then the store  *)
(* through the pointer), because it may walk a chain whose lock the thread *)
(* does not hold.                                                          *)
(*                                                                         *)
(* refcnt is an unsigned 32-bit counter (uint refcnt in kernel/buf.h).  It *)
(* is kept here in its two's complement reading: a decrement at 0 gives    *)
(* -1, which stands for the wrapped value 2^32 - 1, so that refcnt + 1 and *)
(* refcnt - 1 and the comparison with 0 are those of the code.  A count    *)
(* is above 0 in the code exactly when it is not 0 here.                   *)
(***************************************************************************)
EXTENDS Integers, Sequences, FiniteSets, TLC

VARIABLES
  cfg,        \* the build and the callers: NBUF, NBUCKETS, threads, requests
  dev,        \* buf.dev
  blockno,    \* buf.blockno
  valid,      \* buf.valid
  refcnt,     \* buf.refcnt
  next_hash,  \* buf.next_hash
  elems,      \* bcache.elems[i]: head of bucket i's hash chain
  next,       \* buf.next, of the buffers and of the list heads bcache.lrus[i]
  prev,       \* buf.prev, likewise
  data,       \* buf.data, one value standing for the block's bytes
  disk,       \* the device: content of each (dev, blockno)
  locks,      \* bcache.locks[i]: the thread holding it, or NoThread
  biglock,    \* bcache.lock
  slock,      \* buf.lock (sleeplock): the thread holding it, or NoThread
  panicked,   \* panic() was called: the kernel has stopped
  pc,         \* where each thread is
  req,        \* the (dev, blockno) of the thread's bget
  tb,         \* the thread's local b (bget, brelse, bpin, bunpin)
  idx,        \* the thread's local idx (bget, brelse)
  ti,         \* the thread's loop index i in bget
  rd,         \* the value of b->refcnt the thread has loaded
  slot,       \* the struct buf ** find_ptr returned to the thread
  held,       \* the buffers bread returned to the thread and it has not released
  io,         \* whether the thread's latest bread called virtio_disk_rw
  pinned,     \* the blocks pinned with bpin and not yet unpinned, with the buffer
  npin,       \* the number of bpin calls so far
  rt,         \* the block a thread has just written and released, nothing since
  calls,      \* the calls the callers may still start; below 0: no limit
  nelems      \* bcache.nelems of the global-list design (part_001)

vars == <<cfg, dev, blockno, valid, refcnt, next_hash, elems, next, prev, data,
          disk, locks, biglock, slock, panicked, pc, req, tb, idx, ti, rd, slot,
          held, io, pinned, npin, rt, calls, nelems>>

cache == <<dev, blockno, valid, refcnt, next_hash, elems, next, prev>>
locals == <<req, tb, idx, ti, rd, slot>>

---------------------------------------------------------------------------
(* Bounds of the checked configurations. *)

NThreads == 2      \* kernel threads calling into the cache
NBufs == 2         \* NBUF of the checked build
NShards == 2       \* NBUCKETS of the checked build
MaxBlock == 2      \* callers request blocks 0..MaxBlock
MaxHeld == 1       \* buffers one thread holds at a time
MaxPins == 1       \* bpin calls in a run
PinCalls == 7      \* calls in a run of SpecPin
MaxVal == 1        \* block contents are 0..MaxVal
OldCalls == 6      \* calls the callers make in the two earlier designs
BootBufs == 6      \* binit is run with NBUF in 1..BootBufs
BootShards == 5    \* and with NBUCKETS in 1..BootShards

ROOTDEV == 1       \* the device the file system lives on

NoThread == 0
NIL == -1

---------------------------------------------------------------------------
(* The configuration. *)

NBUF == cfg.NBUF
NBUCKETS == cfg.NBUCKETS
Threads == 1..cfg.threads
Bufs == 0..(NBUF - 1)
Shards == 0..(NBUCKETS - 1)
LruHead(s) == NBUF + s   \* the node &bcache.lrus[s], a struct buf like the others
Nodes == 0..(NBUF + NBUCKETS - 1)
Requests == cfg.requests

---------------------------------------------------------------------------
(* Hash chains: find_ptr, btable_insert, btable_remove, btable_find.       *)
(* A struct buf ** is <<"elems", i>> (&bcache.elems[i]) or <<"buf", b>>    *)
(* (&b->next_hash).                                                        *)

Deref(nh, el, p) == IF p[1] = "elems" THEN el[p[2]] ELSE nh[p[2]]

RECURSIVE find_walk(_, _, _, _, _, _, _, _)
find_walk(dv, bn, nh, el, d, n, p, fuel) ==
  LET x == Deref(nh, el, p) IN
  IF fuel = 0 \/ x = NIL THEN p
  ELSE IF bn[x] # n \/ dv[x] # d
       THEN find_walk(dv, bn, nh, el, d, n, <<"buf", x>>, fuel - 1)
       ELSE p

find_ptr(dv, bn, nh, el, d, n) ==
  find_walk(dv, bn, nh, el, d, n, <<"elems", n % NBUCKETS>>,
            NBUF + NBUCKETS + 1)

Store(nh, el, p, v) ==
  IF p[1] = "elems"
  THEN [nh |-> nh, el |-> [el EXCEPT ![p[2]] = v]]
  ELSE [nh |-> [nh EXCEPT ![p[2]] = v], el |-> el]

\* *p = buf; buf->next_hash = 0;  for a p already found
insert_at(nh, el, p, b) ==
  LET s == Store(nh, el, p, b) IN
  [nh |-> [s.nh EXCEPT ![b] = NIL], el |-> s.el]

btable_insert(dv, bn, nh, el, b) ==
  insert_at(nh, el, find_ptr(dv, bn, nh, el, dv[b], bn[b]), b)

btable_remove(dv, bn, nh, el, b) ==
  LET p == find_ptr(dv, bn, nh, el, dv[b], bn[b])
      x == Deref(nh, el, p)
  IN IF x # NIL THEN Store(nh, el, p, nh[x]) ELSE [nh |-> nh, el |-> el]

btable_find(dv, bn, nh, el, d, n) ==
  Deref(nh, el, find_ptr(dv, bn, nh, el, d, n))

---------------------------------------------------------------------------
(* LRU lists: lru_remove, lru_add, on the pair L = [next, prev].           *)

lru_remove(L, b) ==
  LET pv1 == [L.prev EXCEPT ![L.next[b]] = L.prev[b]]
      nx1 == [L.next EXCEPT ![pv1[b]] = L.next[b]]
  IN [next |-> nx1, prev |-> pv1]

lru_add(L, b, head) ==
  LET nx1 == [L.next EXCEPT ![b] = head]
      pv1 == [L.prev EXCEPT ![b] = L.prev[head]]
      nx2 == [nx1 EXCEPT ![pv1[b]] = b]
      pv2 == [pv1 EXCEPT ![nx2[b]] = b]
  IN [next |-> nx2, prev |-> pv2]

---------------------------------------------------------------------------
(* binit. *)

RECURSIVE binit_loop(_, _, _, _)
binit_loop(L, i, n, k) ==
  IF i >= n THEN L ELSE binit_loop(lru_add(L, i, n + (i % k)), i + 1, n, k)

binit(n, k) ==
  binit_loop([next |-> [x \in 0..(n + k - 1) |-> IF x >= n THEN x ELSE NIL],
              prev |-> [x \in 0..(n + k - 1) |-> IF x >= n THEN x ELSE NIL]],
             0, n, k)

InitWith(c) ==
  /\ cfg = c
  /\ dev = [b \in 0..(c.NBUF + c.NBUCKETS - 1) |-> 0]
  /\ blockno = [b \in 0..(c.NBUF + c.NBUCKETS - 1) |-> 0]
  /\ valid = [b \in 0..(c.NBUF + c.NBUCKETS - 1) |-> FALSE]
  /\ refcnt = [b \in 0..(c.NBUF + c.NBUCKETS - 1) |-> 0]
  /\ next_hash = [b \in 0..(c.NBUF + c.NBUCKETS - 1) |-> NIL]
  /\ elems = [s \in 0..(c.NBUCKETS - 1) |-> NIL]
  /\ next = binit(c.NBUF, c.NBUCKETS).next
  /\ prev = binit(c.NBUF, c.NBUCKETS).prev
  /\ data = [b \in 0..(c.NBUF + c.NBUCKETS - 1) |-> 0]
  /\ disk = [r \in c.requests |-> 0]
  /\ locks = [s \in 0..(c.NBUCKETS - 1) |-> NoThread]
  /\ biglock = NoThread
  /\ slock = [b \in 0..(c.NBUF + c.NBUCKETS - 1) |-> NoThread]
  /\ panicked = FALSE
  /\ pc = [t \in 1..c.threads |-> "idle"]
  /\ req = [t \in 1..c.threads |-> <<0, 0>>]
  /\ tb = [t \in 1..c.threads |-> NIL]
  /\ idx = [t \in 1..c.threads |-> 0]
  /\ ti = [t \in 1..c.threads |-> 0]
  /\ rd = [t \in 1..c.threads |-> 0]
  /\ slot = [t \in 1..c.threads |-> <<"elems", 0>>]
  /\ held = [t \in 1..c.threads |-> <<>>]
  /\ io = [t \in 1..c.threads |-> FALSE]
  /\ pinned = {}
  /\ npin = 0
  /\ rt = {}
  /\ calls = c.calls
  /\ nelems = 0

Init ==
  InitWith([NBUF |-> NBufs, NBUCKETS |-> NShards, threads |-> NThreads,
            requests |-> {ROOTDEV} \X (0..MaxBlock), maxheld |-> MaxHeld,
            vals |-> {0}, track |-> FALSE, calls |-> -1])

---------------------------------------------------------------------------
(* What the callers do.  A thread calls bread for a block it does not      *)
(* already hold, and bwrite, brelse, bpin and bunpin for a buffer it holds *)
(* (kernel/log.c pins in log_write and unpins in install_trans, both       *)
(* between bread and brelse); a block is pinned at most once at a time.    *)

CanCall(t) == ~panicked /\ pc[t] = "idle" /\ calls # 0

Spend == calls' = IF calls > 0 THEN calls - 1 ELSE calls

Holds(t, r) == \E k \in 1..Len(held[t]) :
                  held[t][k].dev = r[1] /\ held[t][k].blockno = r[2]

IsPinned(r) == \E p \in pinned : p.dev = r[1] /\ p.blockno = r[2]

RemoveAt(s, k) == [j \in 1..(Len(s) - 1) |-> IF j < k THEN s[j] ELSE s[j + 1]]

DiskAt(d, n) == IF <<d, n>> \in DOMAIN disk THEN disk[<<d, n>>] ELSE 0

Skip(i, own) == IF i = own THEN i + 1 ELSE i    \* if (i == idx) continue;

Return(t) ==
  /\ pc' = [pc EXCEPT ![t] = "idle"]
  /\ req' = [req EXCEPT ![t] = <<0, 0>>]
  /\ tb' = [tb EXCEPT ![t] = NIL]
  /\ idx' = [idx EXCEPT ![t] = 0]
  /\ ti' = [ti EXCEPT ![t] = 0]
  /\ rd' = [rd EXCEPT ![t] = 0]
  /\ slot' = [slot EXCEPT ![t] = <<"elems", 0>>]

---------------------------------------------------------------------------
(* bread -> bget. *)

CallBread(t) ==
  /\ CanCall(t)
  /\ Spend
  /\ Len(held[t]) < cfg.maxheld
  /\ \E r \in Requests :
       /\ ~Holds(t, r)
       /\ req' = [req EXCEPT ![t] = r]
       /\ idx' = [idx EXCEPT ![t] = r[2] % NBUCKETS]
       /\ rt' = {x \in rt : x.t = t /\ x.dev = r[1] /\ x.blockno = r[2]}
  /\ pc' = [pc EXCEPT ![t] = "bget_acq"]
  /\ io' = [io EXCEPT ![t] = FALSE]
  /\ UNCHANGED <<cfg, nelems, cache, data, disk, locks, biglock, slock, panicked,
                 tb, ti, rd, slot, held, pinned, npin>>

\* acquire(lk)
BgetAcquire(t) ==
  /\ ~panicked /\ pc[t] = "bget_acq"
  /\ locks[idx[t]] = NoThread
  /\ locks' = [locks EXCEPT ![idx[t]] = t]
  /\ pc' = [pc EXCEPT ![t] = "bget_lookup"]
  /\ UNCHANGED <<cfg, nelems, cache, data, disk, biglock, slock, panicked,
                 req, tb, idx, ti, rd, slot, held, io, pinned,
                 npin, rt, calls>>

Found(t) == btable_find(dev, blockno, next_hash, elems, req[t][1], req[t][2])

\* b = btable_find(dev, blockno); if (b != 0) { load b->refcnt
BgetHit(t) ==
  /\ ~panicked /\ pc[t] = "bget_lookup"
  /\ Found(t) # NIL
  /\ tb' = [tb EXCEPT ![t] = Found(t)]
  /\ rd' = [rd EXCEPT ![t] = refcnt[Found(t)]]
  /\ pc' = [pc EXCEPT ![t] = "hit_inc"]
  /\ UNCHANGED <<cfg, nelems, cache, data, disk, locks, biglock, slock, panicked,
                 req, idx, ti, slot, held, io, pinned,
                 npin, rt, calls>>

\* the hit path without its release(lk)
BgetHitIncKeepLock(t) ==
  /\ ~panicked /\ pc[t] = "hit_inc"
  /\ refcnt' = [refcnt EXCEPT ![tb[t]] = rd[t] + 1]
  /\ pc' = [pc EXCEPT ![t] = "sleep"]
  /\ UNCHANGED <<cfg, nelems, dev, blockno, valid, next_hash, elems, next, prev, data,
                 disk, locks, biglock, slock, panicked, req, tb, idx, ti, rd,
                 slot, held, io, pinned, npin, rt, calls>>

\* store b->refcnt; release(lk);
BgetHitInc(t) ==
  /\ ~panicked /\ pc[t] = "hit_inc"
  /\ refcnt' = [refcnt EXCEPT ![tb[t]] = rd[t] + 1]
  /\ locks' = [locks EXCEPT ![idx[t]] = NoThread]
  /\ pc' = [pc EXCEPT ![t] = "sleep"]
  /\ UNCHANGED <<cfg, nelems, dev, blockno, valid, next_hash, elems, next, prev, data,
                 disk, biglock, slock, panicked, req, tb, idx, ti, rd, slot,
                 held, io, pinned,
                 npin, rt, calls>>

\* the other end of bucket i's list: bcache.lrus[i].prev
VictimMru(i) == prev[LruHead(i)]

\* the victim of bucket i's list: bcache.lrus[i].next
Victim(i) == next[LruHead(i)]

\* find available buf in its own lru
BgetLocal(t) ==
  /\ ~panicked /\ pc[t] = "bget_lookup"
  /\ Found(t) = NIL
  /\ Victim(idx[t]) # LruHead(idx[t])
  /\ LET b == Victim(idx[t])
         bn == [blockno EXCEPT ![b] = req[t][2]]
         dv == [dev EXCEPT ![b] = req[t][1]]
         H == btable_insert(dv, bn, next_hash, elems, b)
         L == lru_remove([next |-> next, prev |-> prev], b)
     IN /\ refcnt' = [refcnt EXCEPT ![b] = 1]
        /\ blockno' = bn
        /\ dev' = dv
        /\ valid' = [valid EXCEPT ![b] = FALSE]
        /\ next_hash' = H.nh
        /\ elems' = H.el
        /\ next' = L.next
        /\ prev' = L.prev
        /\ tb' = [tb EXCEPT ![t] = b]
  /\ locks' = [locks EXCEPT ![idx[t]] = NoThread]
  /\ pc' = [pc EXCEPT ![t] = "sleep"]
  /\ UNCHANGED <<cfg, nelems, data, disk, biglock, slock, panicked, req, idx, ti, rd,
                 slot, held, io, pinned,
                 npin, rt, calls>>

\* the own list is empty: for (int i = 0; ...
BgetMiss(t) ==
  /\ ~panicked /\ pc[t] = "bget_lookup"
  /\ Found(t) = NIL
  /\ Victim(idx[t]) = LruHead(idx[t])
  /\ ti' = [ti EXCEPT ![t] = Skip(0, idx[t])]
  /\ pc' = [pc EXCEPT ![t] = "steal"]
  /\ UNCHANGED <<cfg, nelems, cache, data, disk, locks, biglock, slock, panicked,
                 req, tb, idx, rd, slot, held, io, pinned,
                 npin, rt, calls>>

\* if (i < idx) acquire(&bcache.locks[i]);
StealAcquireLower(t) ==
  /\ ~panicked /\ pc[t] = "steal"
  /\ ti[t] < idx[t]
  /\ locks[ti[t]] = NoThread
  /\ locks' = [locks EXCEPT ![ti[t]] = t]
  /\ pc' = [pc EXCEPT ![t] = "recheck"]
  /\ UNCHANGED <<cfg, nelems, cache, data, disk, biglock, slock, panicked,
                 req, tb, idx, ti, rd, slot, held, io, pinned,
                 npin, rt, calls>>

\* the else branch without its release(lk): bucket i is taken with lk held
StealKeepLock(t) ==
  /\ ~panicked /\ pc[t] = "steal"
  /\ ti[t] > idx[t] /\ ti[t] < NBUCKETS
  /\ pc' = [pc EXCEPT ![t] = "acq_hi"]
  /\ UNCHANGED <<cfg, nelems, cache, data, disk, locks, biglock, slock, panicked,
                 req, tb, idx, ti, rd, slot, held, io, pinned,
                 npin, rt, calls>>

\* else { release(lk);
StealRelease(t) ==
  /\ ~panicked /\ pc[t] = "steal"
  /\ ti[t] > idx[t] /\ ti[t] < NBUCKETS
  /\ locks' = [locks EXCEPT ![idx[t]] = NoThread]
  /\ pc' = [pc EXCEPT ![t] = "acq_hi"]
  /\ UNCHANGED <<cfg, nelems, cache, data, disk, biglock, slock, panicked,
                 req, tb, idx, ti, rd, slot, held, io, pinned,
                 npin, rt, calls>>

\* acquire(&bcache.locks[i]);
StealAcquireHigher(t) ==
  /\ ~panicked /\ pc[t] = "acq_hi"
  /\ locks[ti[t]] = NoThread
  /\ locks' = [locks EXCEPT ![ti[t]] = t]
  /\ pc' = [pc EXCEPT ![t] = "reacq"]
  /\ UNCHANGED <<cfg, nelems, cache, data, disk, biglock, slock, panicked,
                 req, tb, idx, ti, rd, slot, held, io, pinned,
                 npin, rt, calls>>

\* acquire(lk); }
StealReacquire(t) ==
  /\ ~panicked /\ pc[t] = "reacq"
  /\ locks[idx[t]] = NoThread
  /\ locks' = [locks EXCEPT ![idx[t]] = t]
  /\ pc' = [pc EXCEPT ![t] = "recheck"]
  /\ UNCHANGED <<cfg, nelems, cache, data, disk, biglock, slock, panicked,
                 req, tb, idx, ti, rd, slot, held, io, pinned,
                 npin, rt, calls>>

\* double check: b = btable_find(dev, blockno); if (b != 0) { load b->refcnt
StealHit(t) ==
  /\ ~panicked /\ pc[t] = "recheck"
  /\ Found(t) # NIL
  /\ tb' = [tb EXCEPT ![t] = Found(t)]
  /\ rd' = [rd EXCEPT ![t] = refcnt[Found(t)]]
  /\ pc' = [pc EXCEPT ![t] = "hit2_inc"]
  /\ UNCHANGED <<cfg, nelems, cache, data, disk, locks, biglock, slock, panicked,
                 req, idx, ti, slot, held, io, pinned,
                 npin, rt, calls>>

\* store b->refcnt; release(lk); release(&bcache.locks[i]);
StealHitInc(t) ==
  /\ ~panicked /\ pc[t] = "hit2_inc"
  /\ refcnt' = [refcnt EXCEPT ![tb[t]] = rd[t] + 1]
  /\ locks' = [locks EXCEPT ![idx[t]] = NoThread, ![ti[t]] = NoThread]
  /\ pc' = [pc EXCEPT ![t] = "sleep"]
  /\ UNCHANGED <<cfg, nelems, dev, blockno, valid, next_hash, elems, next, prev, data,
                 disk, biglock, slock, panicked, req, tb, idx, ti, rd, slot,
                 held, io, pinned,
                 npin, rt, calls>>

\* the empty-list branch starting the scan over instead of moving on
StealEmptyRetry(t) ==
  /\ ~panicked /\ pc[t] = "recheck"
  /\ Found(t) = NIL
  /\ Victim(ti[t]) = LruHead(ti[t])
  /\ locks' = [locks EXCEPT ![ti[t]] = NoThread]
  /\ ti' = [ti EXCEPT ![t] = Skip(0, idx[t])]
  /\ pc' = [pc EXCEPT ![t] = "steal"]
  /\ UNCHANGED <<cfg, nelems, cache, data, disk, biglock, slock, panicked,
                 req, tb, idx, rd, slot, held, io, pinned,
                 npin, rt, calls>>

\* the empty-list branch without its release(&bcache.locks[i])
StealEmptyKeepLock(t) ==
  /\ ~panicked /\ pc[t] = "recheck"
  /\ Found(t) = NIL
  /\ Victim(ti[t]) = LruHead(ti[t])
  /\ ti' = [ti EXCEPT ![t] = Skip(ti[t] + 1, idx[t])]
  /\ pc' = [pc EXCEPT ![t] = "steal"]
  /\ UNCHANGED <<cfg, nelems, cache, data, disk, locks, biglock, slock, panicked,
                 req, tb, idx, rd, slot, held, io, pinned,
                 npin, rt, calls>>

\* if (bcache.lrus[i].next == &bcache.lrus[i]) { release(...); continue; }
StealEmpty(t) ==
  /\ ~panicked /\ pc[t] = "recheck"
  /\ Found(t) = NIL
  /\ Victim(ti[t]) = LruHead(ti[t])
  /\ locks' = [locks EXCEPT ![ti[t]] = NoThread]
  /\ ti' = [ti EXCEPT ![t] = Skip(ti[t] + 1, idx[t])]
  /\ pc' = [pc EXCEPT ![t] = "steal"]
  /\ UNCHANGED <<cfg, nelems, cache, data, disk, biglock, slock, panicked,
                 req, tb, idx, rd, slot, held, io, pinned,
                 npin, rt, calls>>

\* b = bcache.lrus[i].next; lru_remove(b); btable_insert(b): its find_ptr,
\* on the identity b still carries
StealTake(t) ==
  /\ ~panicked /\ pc[t] = "recheck"
  /\ Found(t) = NIL
  /\ Victim(ti[t]) # LruHead(ti[t])
  /\ LET b == Victim(ti[t])
         L == lru_remove([next |-> next, prev |-> prev], b)
     IN /\ next' = L.next
        /\ prev' = L.prev
        /\ tb' = [tb EXCEPT ![t] = b]
        /\ slot' = [slot EXCEPT ![t] =
                      find_ptr(dev, blockno, next_hash, elems, dev[b], blockno[b])]
  /\ pc' = [pc EXCEPT ![t] = "steal_ins"]
  /\ UNCHANGED <<cfg, nelems, dev, blockno, valid, refcnt, next_hash, elems, data,
                 disk, locks, biglock, slock, panicked, req, idx, ti, rd,
                 held, io, pinned,
                 npin, rt, calls>>

\* btable_insert(b): *p = buf; buf->next_hash = 0;  then the new identity
StealInstall(t) ==
  /\ ~panicked /\ pc[t] = "steal_ins"
  /\ LET b == tb[t]
         H == insert_at(next_hash, elems, slot[t], b)
     IN /\ next_hash' = H.nh
        /\ elems' = H.el
        /\ refcnt' = [refcnt EXCEPT ![b] = 1]
        /\ blockno' = [blockno EXCEPT ![b] = req[t][2]]
        /\ dev' = [dev EXCEPT ![b] = req[t][1]]
        /\ valid' = [valid EXCEPT ![b] = FALSE]
  /\ locks' = [locks EXCEPT ![idx[t]] = NoThread, ![ti[t]] = NoThread]
  /\ pc' = [pc EXCEPT ![t] = "sleep"]
  /\ UNCHANGED <<cfg, nelems, next, prev, data, disk, biglock, slock, panicked,
                 req, tb, idx, ti, rd, slot, held, io, pinned,
                 npin, rt, calls>>

\* panic("bget: no buffers");
BgetPanic(t) ==
  /\ ~panicked /\ pc[t] = "steal"
  /\ ti[t] >= NBUCKETS
  /\ panicked' = TRUE
  /\ pc' = [pc EXCEPT ![t] = "panic"]
  /\ UNCHANGED <<cfg, nelems, cache, data, disk, locks, biglock, slock,
                 req, tb, idx, ti, rd, slot, held, io, pinned,
                 npin, rt, calls>>

\* acquiresleep(&b->lock); return b;
BgetSleep(t) ==
  /\ ~panicked /\ pc[t] = "sleep"
  /\ slock[tb[t]] = NoThread
  /\ slock' = [slock EXCEPT ![tb[t]] = t]
  /\ pc' = [pc EXCEPT ![t] = "bread_chk"]
  /\ UNCHANGED <<cfg, nelems, cache, data, disk, locks, biglock, panicked,
                 req, tb, idx, ti, rd, slot, held, io, pinned,
                 npin, rt, calls>>

\* the thread is killed while it sleeps in acquiresleep on a lock another
\* thread holds: kill wakes it up
Kill(t) ==
  /\ ~panicked /\ pc[t] = "sleep"
  /\ slock[tb[t]] \notin {NoThread, t}
  /\ pc' = [pc EXCEPT ![t] = "sleep_killed"]
  /\ UNCHANGED <<cfg, nelems, cache, data, disk, locks, biglock, slock, panicked,
                 req, tb, idx, ti, rd, slot, held, io, pinned,
                 npin, rt, calls>>

\* the woken acquiresleep finds the lock taken, sleeps again and gets the lock
\* when it is free; return b;
KilledReblock(t) ==
  /\ ~panicked /\ pc[t] = "sleep_killed"
  /\ slock[tb[t]] = NoThread
  /\ slock' = [slock EXCEPT ![tb[t]] = t]
  /\ pc' = [pc EXCEPT ![t] = "bread_chk"]
  /\ UNCHANGED <<cfg, nelems, cache, data, disk, locks, biglock, panicked,
                 req, tb, idx, ti, rd, slot, held, io, pinned,
                 npin, rt, calls>>

\* the woken acquiresleep gives up without the lock; bget has no result of
\* acquiresleep to look at: return b;
KilledReturn(t) ==
  /\ ~panicked /\ pc[t] = "sleep_killed"
  /\ pc' = [pc EXCEPT ![t] = "bread_chk"]
  /\ UNCHANGED <<cfg, nelems, cache, data, disk, locks, biglock, slock, panicked,
                 req, tb, idx, ti, rd, slot, held, io, pinned,
                 npin, rt, calls>>

Entry(t) == [b |-> tb[t], dev |-> req[t][1], blockno |-> req[t][2], wrote |-> FALSE]

\* if(!b->valid) { virtio_disk_rw(b->dev, b, 0); b->valid = 1; } return b;
BreadRead(t) ==
  /\ ~panicked /\ pc[t] = "bread_chk"
  /\ ~valid[tb[t]]
  /\ data' = [data EXCEPT ![tb[t]] = DiskAt(dev[tb[t]], blockno[tb[t]])]
  /\ valid' = [valid EXCEPT ![tb[t]] = TRUE]
  /\ io' = [io EXCEPT ![t] = TRUE]
  /\ held' = [held EXCEPT ![t] = Append(held[t], Entry(t))]
  /\ Return(t)
  /\ UNCHANGED <<cfg, nelems, dev, blockno, refcnt, next_hash, elems, next, prev,
                 disk, locks, biglock, slock, panicked, pinned,
                 npin, rt, calls>>

\* the buffer is valid: return b;
BreadCached(t) ==
  /\ ~panicked /\ pc[t] = "bread_chk"
  /\ valid[tb[t]]
  /\ held' = [held EXCEPT ![t] = Append(held[t], Entry(t))]
  /\ Return(t)
  /\ UNCHANGED <<cfg, nelems, cache, data, disk, locks, biglock, slock, panicked,
                 io, pinned,
                 npin, rt, calls>>

---------------------------------------------------------------------------
(* bwrite, and the caller changing a buffer's content. *)

\* if(!holdingsleep(&b->lock)) panic("bwrite"); virtio_disk_rw(b->dev, b, 1);
bwrite(t) ==
  /\ CanCall(t)
  /\ Spend
  /\ \E k \in 1..Len(held[t]) :
       LET b == held[t][k].b IN
       IF slock[b] # t
       THEN /\ panicked' = TRUE
            /\ pc' = [pc EXCEPT ![t] = "panic"]
            /\ UNCHANGED <<disk, held>>
       ELSE /\ disk' = [r \in DOMAIN disk |->
                          IF r = <<dev[b], blockno[b]>> THEN data[b] ELSE disk[r]]
            /\ UNCHANGED <<panicked, pc>>
            /\ held' = IF cfg.track
                       THEN [held EXCEPT ![t][k].wrote = TRUE]
                       ELSE held
  /\ UNCHANGED <<cfg, nelems, cache, data, locks, biglock, slock, locals, io,
                 pinned, npin>>
  /\ rt' = {}

\* bwrite(b) by a thread that does not hold b->lock:
\* if(!holdingsleep(&b->lock)) panic("bwrite");
BwriteNotHeld(t) ==
  /\ CanCall(t)
  /\ Spend
  /\ \E b \in Bufs : slock[b] # t
  /\ panicked' = TRUE
  /\ pc' = [pc EXCEPT ![t] = "panic"]
  /\ UNCHANGED <<cfg, nelems, cache, data, disk, locks, biglock, slock, locals,
                 held, io, pinned, npin>>
  /\ rt' = {}

\* the holder of a buffer stores into b->data
Modify(t) ==
  /\ CanCall(t)
  /\ Spend
  /\ \E k \in 1..Len(held[t]) : \E v \in cfg.vals :
       /\ data[held[t][k].b] # v
       /\ data' = [data EXCEPT ![held[t][k].b] = v]
       /\ held' = [held EXCEPT ![t][k].wrote = FALSE]
  /\ UNCHANGED <<cfg, nelems, cache, disk, locks, biglock, slock, panicked, pc, locals,
                 io, pinned, npin>>
  /\ rt' = {}

---------------------------------------------------------------------------
(* brelse. *)

\* if(!holdingsleep(&b->lock)) panic("brelse"); releasesleep(&b->lock);
\* int idx = b->blockno % NBUCKETS;
CallBrelse(t) ==
  /\ CanCall(t)
  /\ Spend
  /\ \E k \in 1..Len(held[t]) :
       LET b == held[t][k].b IN
       IF slock[b] # t
       THEN /\ panicked' = TRUE
            /\ pc' = [pc EXCEPT ![t] = "panic"]
            /\ UNCHANGED <<slock, tb, idx, held>>
            /\ rt' = {}
       ELSE /\ rt' = IF cfg.track /\ held[t][k].wrote
                     THEN {[t |-> t, dev |-> held[t][k].dev,
                            blockno |-> held[t][k].blockno,
                            val |-> data[b], done |-> FALSE]}
                     ELSE {}
            /\ slock' = [slock EXCEPT ![b] = NoThread]
            /\ tb' = [tb EXCEPT ![t] = b]
            /\ idx' = [idx EXCEPT ![t] = blockno[b] % NBUCKETS]
            /\ held' = [held EXCEPT ![t] = RemoveAt(held[t], k)]
            /\ pc' = [pc EXCEPT ![t] = "rel_acq"]
            /\ UNCHANGED panicked
  /\ UNCHANGED <<cfg, nelems, cache, data, disk, locks, biglock, req, ti, rd, slot,
                 io, pinned, npin>>

\* brelse(b) by a thread that does not hold b->lock, with the check left
\* out: the release goes on
BrelseUnchecked(t) ==
  /\ CanCall(t)
  /\ Spend
  /\ \E b \in Bufs :
       /\ slock[b] # t
       /\ slock' = [slock EXCEPT ![b] = NoThread]
       /\ tb' = [tb EXCEPT ![t] = b]
       /\ idx' = [idx EXCEPT ![t] = blockno[b] % NBUCKETS]
  /\ pc' = [pc EXCEPT ![t] = "rel_acq"]
  /\ UNCHANGED <<cfg, nelems, cache, data, disk, locks, biglock, panicked, req, ti, rd,
                 slot, held, io, pinned, npin>>
  /\ rt' = {}

\* brelse(b) by a thread that does not hold b->lock:
\* if(!holdingsleep(&b->lock)) panic("brelse");
BrelseNotHeld(t) ==
  /\ CanCall(t)
  /\ Spend
  /\ \E b \in Bufs : slock[b] # t
  /\ panicked' = TRUE
  /\ pc' = [pc EXCEPT ![t] = "panic"]
  /\ UNCHANGED <<cfg, nelems, cache, data, disk, locks, biglock, slock, locals,
                 held, io, pinned, npin>>
  /\ rt' = {}

\* acquire(lk); load b->refcnt
BrelseAcquire(t) ==
  /\ ~panicked /\ pc[t] = "rel_acq"
  /\ locks[idx[t]] = NoThread
  /\ locks' = [locks EXCEPT ![idx[t]] = t]
  /\ rd' = [rd EXCEPT ![t] = refcnt[tb[t]]]
  /\ pc' = [pc EXCEPT ![t] = "rel_dec"]
  /\ UNCHANGED <<cfg, nelems, cache, data, disk, biglock, slock, panicked,
                 req, tb, idx, ti, slot, held, io, pinned,
                 npin, rt, calls>>

\* store b->refcnt; if (b->refcnt == 0) { lru_add(b, &bcache.lrus[idx]);
\* btable_remove(b); } release(lk);
BrelseDec(t) ==
  /\ ~panicked /\ pc[t] = "rel_dec"
  /\ LET b == tb[t]
         L == lru_add([next |-> next, prev |-> prev], b, LruHead(idx[t]))
         H == btable_remove(dev, blockno, next_hash, elems, b)
     IN /\ refcnt' = [refcnt EXCEPT ![b] = rd[t] - 1]
        /\ IF rd[t] - 1 = 0
           THEN /\ next' = L.next
                /\ prev' = L.prev
                /\ next_hash' = H.nh
                /\ elems' = H.el
           ELSE UNCHANGED <<next, prev, next_hash, elems>>
  /\ locks' = [locks EXCEPT ![idx[t]] = NoThread]
  /\ Return(t)
  /\ rt' = IF rd[t] - 1 = 0 /\ \A u \in Threads \ {t} : pc[u] = "idle"
           THEN {[x EXCEPT !.done = TRUE] : x \in {y \in rt : y.t = t}}
           ELSE {}
  /\ UNCHANGED <<cfg, nelems, dev, blockno, valid, data, disk, biglock, slock,
                 panicked, held, io, pinned, npin, calls>>

---------------------------------------------------------------------------
(* bpin, bunpin. *)

CallBpin(t) ==
  /\ CanCall(t)
  /\ Spend
  /\ npin < MaxPins
  /\ npin' = npin + 1
  /\ rt' = {}
  /\ \E k \in 1..Len(held[t]) :
       /\ ~IsPinned(<<held[t][k].dev, held[t][k].blockno>>)
       /\ tb' = [tb EXCEPT ![t] = held[t][k].b]
       /\ req' = [req EXCEPT ![t] = <<held[t][k].dev, held[t][k].blockno>>]
  /\ pc' = [pc EXCEPT ![t] = "pin_acq"]
  /\ UNCHANGED <<cfg, nelems, cache, data, disk, locks, biglock, slock, panicked,
                 idx, ti, rd, slot, held, io, pinned>>

\* acquire(&bcache.lock); load b->refcnt
BpinAcquire(t) ==
  /\ ~panicked /\ pc[t] = "pin_acq"
  /\ biglock = NoThread
  /\ biglock' = t
  /\ rd' = [rd EXCEPT ![t] = refcnt[tb[t]]]
  /\ pc' = [pc EXCEPT ![t] = "pin_inc"]
  /\ UNCHANGED <<cfg, nelems, cache, data, disk, locks, slock, panicked,
                 req, tb, idx, ti, slot, held, io, pinned,
                 npin, rt, calls>>

\* store b->refcnt; release(&bcache.lock);
BpinInc(t) ==
  /\ ~panicked /\ pc[t] = "pin_inc"
  /\ refcnt' = [refcnt EXCEPT ![tb[t]] = rd[t] + 1]
  /\ biglock' = NoThread
  /\ pinned' = pinned \cup {[b |-> tb[t], dev |-> req[t][1], blockno |-> req[t][2]]}
  /\ Return(t)
  /\ UNCHANGED <<cfg, nelems, dev, blockno, valid, next_hash, elems, next, prev, data,
                 disk, locks, slock, panicked, held, io, npin, rt, calls>>

CallBunpin(t) ==
  /\ CanCall(t)
  /\ Spend
  /\ \E k \in 1..Len(held[t]) :
       /\ IsPinned(<<held[t][k].dev, held[t][k].blockno>>)
       /\ tb' = [tb EXCEPT ![t] = held[t][k].b]
       /\ pinned' = {p \in pinned : ~(p.dev = held[t][k].dev /\
                                      p.blockno = held[t][k].blockno)}
  /\ pc' = [pc EXCEPT ![t] = "unpin_acq"]
  /\ UNCHANGED <<cfg, nelems, cache, data, disk, locks, biglock, slock, panicked,
                 req, idx, ti, rd, slot, held, io, npin>>
  /\ rt' = {}

\* acquire(&bcache.lock); load b->refcnt
BunpinAcquire(t) ==
  /\ ~panicked /\ pc[t] = "unpin_acq"
  /\ biglock = NoThread
  /\ biglock' = t
  /\ rd' = [rd EXCEPT ![t] = refcnt[tb[t]]]
  /\ pc' = [pc EXCEPT ![t] = "unpin_dec"]
  /\ UNCHANGED <<cfg, nelems, cache, data, disk, locks, slock, panicked,
                 req, tb, idx, ti, slot, held, io, pinned,
                 npin, rt, calls>>

\* store b->refcnt; release(&bcache.lock);
BunpinDec(t) ==
  /\ ~panicked /\ pc[t] = "unpin_dec"
  /\ refcnt' = [refcnt EXCEPT ![tb[t]] = rd[t] - 1]
  /\ biglock' = NoThread
  /\ Return(t)
  /\ UNCHANGED <<cfg, nelems, dev, blockno, valid, next_hash, elems, next, prev, data,
                 disk, locks, slock, panicked, held, io, pinned,
                 npin, rt, calls>>

---------------------------------------------------------------------------
(* The specifications. *)

\* Threads that call bread, bwrite and brelse, any number of times.
Next ==
  \/ \E t \in Threads : CallBread(t)
  \/ \E t \in Threads : BgetAcquire(t)
  \/ \E t \in Threads : BgetHit(t)
  \/ \E t \in Threads : BgetHitInc(t)
  \/ \E t \in Threads : BgetLocal(t)
  \/ \E t \in Threads : BgetMiss(t)
  \/ \E t \in Threads : StealAcquireLower(t)
  \/ \E t \in Threads : StealRelease(t)
  \/ \E t \in Threads : StealAcquireHigher(t)
  \/ \E t \in Threads : StealReacquire(t)
  \/ \E t \in Threads : StealHit(t)
  \/ \E t \in Threads : StealHitInc(t)
  \/ \E t \in Threads : StealEmpty(t)
  \/ \E t \in Threads : StealTake(t)
  \/ \E t \in Threads : StealInstall(t)
  \/ \E t \in Threads : BgetPanic(t)
  \/ \E t \in Threads : BgetSleep(t)
  \/ \E t \in Threads : BreadRead(t)
  \/ \E t \in Threads : BreadCached(t)
  \/ \E t \in Threads : bwrite(t)
  \/ \E t \in Threads : CallBrelse(t)
  \/ \E t \in Threads : BrelseAcquire(t)
  \/ \E t \in Threads : BrelseDec(t)

Spec == Init /\ [][Next]_vars

\* The same threads with a log layer above them that pins and unpins; a run
\* makes PinCalls calls.
InitPin ==
  InitWith([NBUF |-> NBufs, NBUCKETS |-> NShards, threads |-> NThreads,
            requests |-> {ROOTDEV} \X (0..MaxBlock), maxheld |-> MaxHeld,
            vals |-> {0}, track |-> FALSE, calls |-> PinCalls])

NextPin ==
  \/ Next
  \/ \E t \in Threads : CallBpin(t)
  \/ \E t \in Threads : BpinAcquire(t)
  \/ \E t \in Threads : BpinInc(t)
  \/ \E t \in Threads : CallBunpin(t)
  \/ \E t \in Threads : BunpinAcquire(t)
  \/ \E t \in Threads : BunpinDec(t)

SpecPin == InitPin /\ [][NextPin]_vars

\* The threads of Spec, which may also call bwrite and brelse for a buffer
\* whose content lock they do not hold.
NextMisuse ==
  \/ Next
  \/ \E t \in Threads : BwriteNotHeld(t)
  \/ \E t \in Threads : BrelseNotHeld(t)

SpecMisuse == Init /\ [][NextMisuse]_vars

\* The threads of Spec, any of which may be killed while asleep on a content
\* lock.  What acquiresleep does when woken this way is not in this file: it
\* sleeps again, or it returns without the lock.
NextKill ==
  \/ Next
  \/ \E t \in Threads : Kill(t)
  \/ \E t \in Threads : KilledReblock(t)
  \/ \E t \in Threads : KilledReturn(t)

SpecKill == Init /\ [][NextKill]_vars

\* One thread more and one buffer fewer: every list can be empty while two
\* threads are in bget, so that both walk the other buckets' lists.
InitSteal ==
  InitWith([NBUF |-> NBufs - 1, NBUCKETS |-> NShards, threads |-> NThreads + 1,
            requests |-> {ROOTDEV} \X (0..MaxBlock), maxheld |-> MaxHeld,
            vals |-> {0}, track |-> FALSE, calls |-> -1])

SpecSteal == InitSteal /\ [][Next]_vars

\* One bucket more and one buffer fewer: a bget that finds its own list
\* empty walks two other buckets, one below and one above its own or both on
\* the same side.
InitOrder ==
  InitWith([NBUF |-> NBufs - 1, NBUCKETS |-> NShards + 1, threads |-> NThreads,
            requests |-> {ROOTDEV} \X (0..(MaxBlock + 1)), maxheld |-> MaxHeld,
            vals |-> {0}, track |-> FALSE, calls |-> -1])

SpecOrder == InitOrder /\ [][Next]_vars

\* One thread alone, which also stores into the buffers it holds; its round
\* trips (write, release, acquire again with nothing in between) are tracked
\* in rt.  The steps left out never happen to a thread running alone: it
\* finds no block in a hash chain and no LRU list empty.
InitSeq ==
  InitWith([NBUF |-> NBufs, NBUCKETS |-> NShards, threads |-> 1,
            requests |-> {ROOTDEV} \X (0..MaxBlock), maxheld |-> MaxHeld + 1,
            vals |-> 0..MaxVal, track |-> TRUE, calls |-> -1])

NextSeq ==
  \/ \E t \in Threads : CallBread(t)
  \/ \E t \in Threads : BgetAcquire(t)
  \/ \E t \in Threads : BgetLocal(t)
  \/ \E t \in Threads : BgetMiss(t)
  \/ \E t \in Threads : StealAcquireLower(t)
  \/ \E t \in Threads : StealRelease(t)
  \/ \E t \in Threads : StealAcquireHigher(t)
  \/ \E t \in Threads : StealReacquire(t)
  \/ \E t \in Threads : StealTake(t)
  \/ \E t \in Threads : StealInstall(t)
  \/ \E t \in Threads : BgetSleep(t)
  \/ \E t \in Threads : BreadRead(t)
  \/ \E t \in Threads : bwrite(t)
  \/ \E t \in Threads : Modify(t)
  \/ \E t \in Threads : CallBrelse(t)
  \/ \E t \in Threads : BrelseAcquire(t)
  \/ \E t \in Threads : BrelseDec(t)

SpecSeq == InitSeq /\ [][NextSeq]_vars

\* binit with 16 buffers in 13 buckets, and one thread that reads blocks of
\* bucket 0 of either device and releases nothing.  Nothing is released, so
\* no block is found and no list past bucket 0's is found empty.
InitScenario ==
  InitWith([NBUF |-> 16, NBUCKETS |-> 13, threads |-> 1,
            requests |-> {0, ROOTDEV} \X {0, 13, 26}, maxheld |-> 3,
            vals |-> {0}, track |-> FALSE, calls |-> -1])

NextScenario ==
  \/ \E t \in Threads : CallBread(t)
  \/ \E t \in Threads : BgetAcquire(t)
  \/ \E t \in Threads : BgetLocal(t)
  \/ \E t \in Threads : BgetMiss(t)
  \/ \E t \in Threads : StealRelease(t)
  \/ \E t \in Threads : StealAcquireHigher(t)
  \/ \E t \in Threads : StealReacquire(t)
  \/ \E t \in Threads : StealTake(t)
  \/ \E t \in Threads : StealInstall(t)
  \/ \E t \in Threads : BgetSleep(t)
  \/ \E t \in Threads : BreadRead(t)

SpecScenario == InitScenario /\ [][NextScenario]_vars

---------------------------------------------------------------------------
(* What the claims speak of. *)

---------------------------------------------------------------------------
(* binit, statement by statement, run by the boot thread on the zeroed
   static storage of bcache before anything else uses the cache. *)

\* bcache as the loader leaves it: every field zero, every pointer null
ZeroedWith(c) ==
  /\ cfg = c
  /\ dev = [b \in 0..(c.NBUF + c.NBUCKETS - 1) |-> 0]
  /\ blockno = [b \in 0..(c.NBUF + c.NBUCKETS - 1) |-> 0]
  /\ valid = [b \in 0..(c.NBUF + c.NBUCKETS - 1) |-> FALSE]
  /\ refcnt = [b \in 0..(c.NBUF + c.NBUCKETS - 1) |-> 0]
  /\ next_hash = [b \in 0..(c.NBUF + c.NBUCKETS - 1) |-> NIL]
  /\ elems = [s \in 0..(c.NBUCKETS - 1) |-> NIL]
  /\ next = [b \in 0..(c.NBUF + c.NBUCKETS - 1) |-> NIL]
  /\ prev = [b \in 0..(c.NBUF + c.NBUCKETS - 1) |-> NIL]
  /\ data = [b \in 0..(c.NBUF + c.NBUCKETS - 1) |-> 0]
  /\ disk = [r \in c.requests |-> 0]
  /\ locks = [s \in 0..(c.NBUCKETS - 1) |-> NoThread]
  /\ biglock = NoThread
  /\ slock = [b \in 0..(c.NBUF + c.NBUCKETS - 1) |-> NoThread]
  /\ panicked = FALSE
  /\ pc = [t \in 1..c.threads |-> "binit"]
  /\ req = [t \in 1..c.threads |-> <<0, 0>>]
  /\ tb = [t \in 1..c.threads |-> NIL]
  /\ idx = [t \in 1..c.threads |-> 0]
  /\ ti = [t \in 1..c.threads |-> 0]
  /\ rd = [t \in 1..c.threads |-> 0]
  /\ slot = [t \in 1..c.threads |-> <<"elems", 0>>]
  /\ held = [t \in 1..c.threads |-> <<>>]
  /\ io = [t \in 1..c.threads |-> FALSE]
  /\ pinned = {}
  /\ npin = 0
  /\ rt = {}
  /\ calls = c.calls
  /\ nelems = 0

InitBoot ==
  \E n \in 1..BootBufs, k \in 1..BootShards :
    ZeroedWith([NBUF |-> n, NBUCKETS |-> k, threads |-> 1,
                requests |-> {ROOTDEV} \X (0..MaxBlock), maxheld |-> MaxHeld,
                vals |-> {0}, track |-> FALSE, calls |-> -1])

\* initlock(&bcache.lock, "bcache"); int i = 0
BinitStart(t) ==
  /\ pc[t] = "binit"
  /\ biglock' = NoThread
  /\ ti' = [ti EXCEPT ![t] = 0]
  /\ pc' = [pc EXCEPT ![t] = "binit_heads"]
  /\ UNCHANGED <<cfg, nelems, cache, data, disk, locks, slock, panicked, req, tb, idx,
                 rd, slot, held, io, pinned, npin, rt, calls>>

\* one round of the first loop: initlock(&bcache.locks[i]);
\* bcache.lrus[i].next = bcache.lrus[i].prev = &bcache.lrus[i]
BinitHead(t) ==
  /\ pc[t] = "binit_heads"
  /\ ti[t] < NBUCKETS
  /\ locks' = [locks EXCEPT ![ti[t]] = NoThread]
  /\ next' = [next EXCEPT ![LruHead(ti[t])] = LruHead(ti[t])]
  /\ prev' = [prev EXCEPT ![LruHead(ti[t])] = LruHead(ti[t])]
  /\ ti' = [ti EXCEPT ![t] = ti[t] + 1]
  /\ UNCHANGED <<cfg, nelems, dev, blockno, valid, refcnt, next_hash, elems, data,
                 disk, biglock, slock, panicked, pc, req, tb, idx, rd, slot,
                 held, io, pinned, npin, rt, calls>>

\* the first loop ends at i = NBUCKETS; the second starts at i = 0
BinitHeadsDone(t) ==
  /\ pc[t] = "binit_heads"
  /\ ti[t] >= NBUCKETS
  /\ ti' = [ti EXCEPT ![t] = 0]
  /\ pc' = [pc EXCEPT ![t] = "binit_bufs"]
  /\ UNCHANGED <<cfg, nelems, cache, data, disk, locks, biglock, slock, panicked, req,
                 tb, idx, rd, slot, held, io, pinned, npin, rt, calls>>

\* the second loop with every buffer added to bucket 0's list
BinitBufOneList(t) ==
  /\ pc[t] = "binit_bufs"
  /\ ti[t] < NBUF
  /\ LET L == lru_add([next |-> next, prev |-> prev], ti[t], LruHead(0))
     IN /\ next' = L.next
        /\ prev' = L.prev
  /\ ti' = [ti EXCEPT ![t] = ti[t] + 1]
  /\ UNCHANGED <<cfg, nelems, dev, blockno, valid, refcnt, next_hash, elems, data,
                 disk, locks, biglock, slock, panicked, pc, req, tb, idx, rd,
                 slot, held, io, pinned, npin, rt, calls>>

\* one round of the second loop: head = &bcache.lrus[i % NBUCKETS];
\* b = bcache.buf + i; lru_add(b, head)
BinitBuf(t) ==
  /\ pc[t] = "binit_bufs"
  /\ ti[t] < NBUF
  /\ LET L == lru_add([next |-> next, prev |-> prev], ti[t],
                      LruHead(ti[t] % NBUCKETS))
     IN /\ next' = L.next
        /\ prev' = L.prev
  /\ ti' = [ti EXCEPT ![t] = ti[t] + 1]
  /\ UNCHANGED <<cfg, nelems, dev, blockno, valid, refcnt, next_hash, elems, data,
                 disk, locks, biglock, slock, panicked, pc, req, tb, idx, rd,
                 slot, held, io, pinned, npin, rt, calls>>

\* the second loop ends at i = NBUF and binit returns
BinitDone(t) ==
  /\ pc[t] = "binit_bufs"
  /\ ti[t] >= NBUF
  /\ ti' = [ti EXCEPT ![t] = 0]
  /\ pc' = [pc EXCEPT ![t] = "idle"]
  /\ UNCHANGED <<cfg, nelems, cache, data, disk, locks, biglock, slock, panicked, req,
                 tb, idx, rd, slot, held, io, pinned, npin, rt, calls>>

NextBoot ==
  \/ \E t \in Threads : BinitStart(t)
  \/ \E t \in Threads : BinitHead(t)
  \/ \E t \in Threads : BinitHeadsDone(t)
  \/ \E t \in Threads : BinitBuf(t)
  \/ \E t \in Threads : BinitDone(t)

SpecBoot == InitBoot /\ [][NextBoot]_vars


RECURSIVE ChainFrom(_, _)
ChainFrom(x, fuel) ==
  IF x = NIL \/ fuel = 0 THEN {} ELSE {x} \cup ChainFrom(next_hash[x], fuel - 1)

\* the buffers reachable from bucket s's hash chain
Chain(s) == ChainFrom(elems[s], NBUF + NBUCKETS + 1)

RECURSIVE LruFrom(_, _, _)
LruFrom(x, head, fuel) ==
  IF x = head \/ x = NIL \/ fuel = 0 THEN {}
  ELSE {x} \cup LruFrom(next[x], head, fuel - 1)

\* the buffers on bucket s's LRU list, walking next from the head
OnLru(s) == LruFrom(next[LruHead(s)], LruHead(s), NBUF + NBUCKETS + 1) \cap Bufs

Resident(b) == refcnt[b] # 0 \/ \E s \in Shards : b \in Chain(s)

NoShardLockHeld == \A s \in Shards : locks[s] = NoThread

\* C1: at most one resident buffer (refcnt > 0 or reachable from a hash
\* chain) carries a given (dev, blockno).
C1_OneResidentPerBlock ==
  \A b1, b2 \in Bufs :
    (b1 # b2 /\ Resident(b1) /\ Resident(b2))
      => (dev[b1] # dev[b2] \/ blockno[b1] # blockno[b2])

\* the bucket lock a thread is spinning for in acquire(), or NIL
Wants(t) ==
  CASE pc[t] \in {"bget_acq", "reacq", "rel_acq"} -> idx[t]
    [] pc[t] = "steal" /\ ti[t] < idx[t] -> ti[t]
    [] pc[t] = "acq_hi" -> ti[t]
    [] OTHER -> NIL

HoldsShardLock(t) == \E s \in Shards : locks[s] = t

WaitsFor(t, u) == Wants(t) # NIL /\ locks[Wants(t)] = u

\* C2: no set of threads each hold a bucket lock and wait for a bucket lock
\* held by another thread of the set.
C2_NoShardLockDeadlock ==
  \A S \in SUBSET Threads :
    S # {} => \E t \in S :
                ~(HoldsShardLock(t) /\ \E u \in S \ {t} : WaitsFor(t, u))

\* Two threads steal at once in both index directions: one holds its own
\* bucket lock and spins for a lower one, held by a thread whose loop is at
\* a higher bucket than its own.
C2_Witness ==
  \E t1, t2 \in Threads :
    /\ t1 # t2
    /\ pc[t1] = "steal" /\ ti[t1] < idx[t1] /\ locks[idx[t1]] = t1
    /\ WaitsFor(t1, t2)
    /\ pc[t2] = "steal" /\ ti[t2] > idx[t2] /\ ti[t2] < NBUCKETS

\* C3: a buffer bread returned carries the requested (dev, blockno) until its
\* brelse, is valid, and its content lock is held by the caller alone.
C3_BreadResult ==
  \A t \in Threads : \A k \in 1..Len(held[t]) :
    LET h == held[t][k] IN
    /\ dev[h.b] = h.dev /\ blockno[h.b] = h.blockno
    /\ valid[h.b]
    /\ slock[h.b] = t
    /\ \A u \in Threads \ {t} : \A j \in 1..Len(held[u]) : held[u][j].b # h.b

\* C4: the buffer bget is about to take from an LRU list, from its own bucket
\* or from one it steals from, has refcnt 0.
C4_VictimUnreferenced ==
  \A t \in Threads :
    /\ (pc[t] = "bget_lookup" /\ Found(t) = NIL
          /\ Victim(idx[t]) # LruHead(idx[t]))
         => refcnt[Victim(idx[t])] = 0
    /\ (pc[t] = "recheck" /\ Found(t) = NIL /\ Victim(ti[t]) # LruHead(ti[t]))
         => refcnt[Victim(ti[t])] = 0

\* C5: with no bucket lock held, every buffer is referenced and on no LRU
\* list, or has refcnt 0 and is on exactly one LRU list.
C5_ReferencedXorOnLru ==
  NoShardLockHeld =>
    \A b \in Bufs :
      \/ refcnt[b] # 0 /\ \A s \in Shards : b \notin OnLru(s)
      \/ refcnt[b] = 0 /\ Cardinality({s \in Shards : b \in OnLru(s)}) = 1

\* the buffers a thread has a reference to for a block: returned to it, or
\* chosen by its bget that has not returned yet
Has(t) ==
  {<<held[t][k].dev, held[t][k].blockno, held[t][k].b>> : k \in 1..Len(held[t])}
  \cup (IF pc[t] \in {"sleep", "bread_chk"}
        THEN {<<req[t][1], req[t][2], tb[t]>>} ELSE {})

\* C7: two threads in bread for the same (dev, blockno) at the same time get
\* the same buffer, and at most one of them reads the device.
C7_OneInstallOneRead ==
  \A t1, t2 \in Threads : \A h1 \in Has(t1) : \A h2 \in Has(t2) :
    (t1 # t2 /\ h1[1] = h2[1] /\ h1[2] = h2[2])
      => /\ h1[3] = h2[3]
         /\ ~(io[t1] /\ io[t2] /\ pc[t1] = "idle" /\ pc[t2] = "idle")

\* C6: a thread that wrote a buffer, released it to refcnt 0 and acquires
\* the same block again, with no other call in between, gets the content it
\* wrote and its bread reads nothing from the device.
C6_RoundTrip ==
  \A x \in rt :
    (x.done /\ pc[x.t] = "idle" /\ Holds(x.t, <<x.dev, x.blockno>>))
      => /\ ~io[x.t]
         /\ \A k \in 1..Len(held[x.t]) :
              (held[x.t][k].dev = x.dev /\ held[x.t][k].blockno = x.blockno)
                => data[held[x.t][k].b] = x.val

\* C8: no reference count goes below zero: a brelse or bunpin about to store
\* its decrement loaded a count above 0, and no count holds the wrapped value.
C8_RefcntNonNegative ==
  /\ \A t \in Threads : pc[t] \in {"rel_dec", "unpin_dec"} => rd[t] > 0
  /\ \A b \in Bufs : refcnt[b] # -1

\* C9: a buffer pinned and not yet unpinned keeps its (dev, blockno) and is
\* on no LRU list.
C9_PinnedStaysResident ==
  \A p \in pinned :
    /\ dev[p.b] = p.dev /\ blockno[p.b] = p.blockno
    /\ \A s \in Shards : p.b \notin OnLru(s)

\* the thread holds exactly blocks 0, 13 and 26 of device d, read in that order
HoldsScenario(t, d) ==
  /\ pc[t] = "idle" /\ Len(held[t]) = 3
  /\ \A k \in 1..3 : held[t][k].dev = d /\ held[t][k].blockno = 13 * (k - 1)

\* C10: after binit with 16 buffers and 13 buckets, a thread that has read
\* blocks 0, 13 and 26 of one device and released none of them got the
\* second and the third from another bucket's list, holds three different
\* buffers, and each is what a lookup of its block in bucket 0's chain finds.
C10_ThreeResident ==
  \A t \in Threads : \A d \in {0, ROOTDEV} :
    HoldsScenario(t, d)
      => /\ \A k \in 2..3 : held[t][k].b % NBUCKETS # 0
         /\ \A j, k \in 1..3 : j # k => held[t][j].b # held[t][k].b
         /\ \A k \in 1..3 :
              /\ held[t][k].b \in Chain(0)
              /\ btable_find(dev, blockno, next_hash, elems, d, 13 * (k - 1))
                   = held[t][k].b

\* the part of C10 about the outcome alone: three different buffers, each
\* found by a lookup of its block
C10_Outcome ==
  \A t \in Threads : \A d \in {0, ROOTDEV} :
    HoldsScenario(t, d)
      => /\ \A j, k \in 1..3 : j # k => held[t][j].b # held[t][k].b
         /\ \A k \in 1..3 :
              btable_find(dev, blockno, next_hash, elems, d, 13 * (k - 1))
                = held[t][k].b


\* the program points of bget's loop over the other buckets
InScan == {"steal", "acq_hi", "reacq", "recheck"}

AllListsEmpty == \A s \in Shards : Victim(s) = LruHead(s)

\* C11: a bget that finds every list it visits empty moves on to the next
\* bucket each time (the loop index only grows, the bucket of the request is
\* skipped), changes nothing in the cache, never goes back to the lookup, and
\* at the end of the loop its only step is the panic, which installs nothing.
C11_ExhaustionIsFatal ==
  [][\A t \in Threads :
       /\ (pc[t] \in InScan /\ pc'[t] \in InScan)
            => /\ ti'[t] >= ti[t]
               /\ ti'[t] # idx[t]
       /\ (pc[t] = "recheck" /\ pc'[t] = "steal")
            => (ti'[t] > ti[t] /\ cache' = cache)
       /\ pc[t] \in InScan => pc'[t] \notin {"bget_acq", "bget_lookup"}
       /\ (pc[t] = "recheck" /\ Found(t) = NIL /\ Victim(ti[t]) = LruHead(ti[t])
             /\ pc'[t] # pc[t])
            => pc'[t] = "steal"
       /\ (pc[t] = "steal" /\ ti[t] >= NBUCKETS /\ pc'[t] # pc[t])
            => (pc'[t] = "panic" /\ panicked' /\ cache' = cache
                  /\ held' = held /\ tb'[t] = tb[t])
    ]_vars

\* a bget has gone through all other buckets with every list empty and has
\* called panic
C11_Witness ==
  \E t \in Threads :
    /\ pc[t] = "panic" /\ panicked
    /\ ti[t] >= NBUCKETS
    /\ AllListsEmpty
    /\ \A b \in Bufs : refcnt[b] # 0

\* C12: a step that takes an idle thread into panic (bwrite or brelse of a
\* buffer whose content lock it does not hold) writes nothing to the device
\* and changes no refcnt, list, chain or lock; a device write or the start of
\* a release is only ever done by the holder of the buffer's content lock.
C12_UnlockedAborts ==
  [][\A t \in Threads :
       /\ (pc[t] = "idle" /\ pc'[t] = "panic")
            => (panicked' /\ disk' = disk /\ cache' = cache /\ data' = data
                  /\ slock' = slock /\ locks' = locks /\ held' = held)
       /\ (pc[t] = "idle" /\ pc'[t] = "idle" /\ disk' # disk)
            => \E b \in Bufs :
                 /\ slock[b] = t
                 /\ disk' = [r \in DOMAIN disk |->
                               IF r = <<dev[b], blockno[b]>> THEN data[b]
                               ELSE disk[r]]
       /\ (pc[t] = "idle" /\ pc'[t] = "rel_acq") => slock[tb'[t]] = t
    ]_vars

\* a thread has panicked in bwrite or brelse of a buffer another thread holds
C12_Witness ==
  \E t \in Threads :
    /\ panicked /\ pc[t] = "panic" /\ ti[t] < NBUCKETS
    /\ \E b \in Bufs : slock[b] \notin {t, NoThread} /\ refcnt[b] # 0

\* C13: the next step of a thread killed while asleep on a content lock is
\* a return to its caller with a failure: it gets no buffer, and afterwards
\* holds no content lock it did not hold before and no bucket lock.
C13_KilledWaitFails ==
  [][\A t \in Threads :
       (pc[t] = "sleep_killed" /\ pc'[t] # "sleep_killed")
         => /\ pc'[t] = "idle"
            /\ held'[t] = held[t]
            /\ slock' = slock
            /\ \A s \in Shards : locks'[s] # t
    ]_vars

HoldsNoSpinlock(t) == biglock # t /\ \A s \in Shards : locks[s] # t

\* C14: a thread in acquiresleep, a thread between acquiresleep and bread's
\* device read, and a thread not inside the cache at all (where bwrite's
\* device write is done) holds no bucket lock and not bcache.lock.
C14_NoSpinlockAcrossSleepOrIO ==
  \A t \in Threads :
    pc[t] \in {"sleep", "bread_chk", "idle"} => HoldsNoSpinlock(t)

\* a thread is blocked on a content lock another thread holds, after a hit,
\* and another is about to read the device
C14_Witness ==
  \E t, u \in Threads :
    /\ pc[t] = "sleep" /\ slock[tb[t]] = u
    /\ pc[u] = "bread_chk" /\ ~valid[tb[u]]

\* C15: right after a steal for (dev, blockno) from bucket i, the victim is
\* off bucket i's list, has refcnt 1, valid = 0 and the new identity, and is
\* what a lookup of (dev, blockno) finds, in the chain of bucket
\* blockno % NBUCKETS and in no other chain.
C15_StealInstalls ==
  [][\A t \in Threads :
       (pc[t] = "steal_ins" /\ pc'[t] = "sleep")
         => LET b == tb[t] IN
            /\ b \notin OnLru(ti[t])'
            /\ refcnt'[b] = 1
            /\ ~valid'[b]
            /\ dev'[b] = req[t][1] /\ blockno'[b] = req[t][2]
            /\ btable_find(dev, blockno, next_hash, elems, req[t][1], req[t][2])' = b
            /\ \A s \in Shards : (b \in Chain(s)') <=> (s = idx[t])
    ]_vars

\* this step stores into bucket s's hash chain: its head pointer, the link of
\* a buffer in it, or its membership
ChainMutated(s) ==
  \/ elems'[s] # elems[s]
  \/ \E b \in Chain(s) : next_hash'[b] # next_hash[b]
  \/ Chain(s)' # Chain(s)

\* this step stores into bucket s's LRU list: the links of its head or of a
\* buffer on it, or its membership
LruMutated(s) ==
  \/ next'[LruHead(s)] # next[LruHead(s)]
  \/ prev'[LruHead(s)] # prev[LruHead(s)]
  \/ \E b \in OnLru(s) : next'[b] # next[b] \/ prev'[b] # prev[b]
  \/ OnLru(s)' # OnLru(s)

\* C16: a step that changes a bucket's hash chain or LRU list is taken by a
\* thread that holds that bucket's lock.
C16_MutationsUnderLock ==
  [][\A s \in Shards :
       (ChainMutated(s) \/ LruMutated(s))
         => \E t \in Threads : locks[s] = t /\ pc'[t] # pc[t]
    ]_vars

\* the references to buffer b that are outstanding: acquires whose increment
\* is stored and whose brelse has not stored its decrement, and pins whose
\* increment is stored and whose bunpin has not stored its decrement
Outstanding(b) ==
  Cardinality({t \in Threads :
                 pc[t] \in {"sleep", "sleep_killed", "bread_chk",
                            "rel_acq", "rel_dec", "unpin_acq", "unpin_dec"}
                 /\ tb[t] = b})
  + Cardinality({<<t, k>> \in Threads \X (1..(NBUF + 1)) :
                   k <= Len(held[t]) /\ held[t][k].b = b})
  + Cardinality({p \in pinned : p.b = b})

\* C17: no bpin/bunpin is between its load and its store of b->refcnt while
\* a bget hit or a brelse is between its load and store on the same buffer,
\* and every refcnt equals the number of outstanding acquires and pins.
C17_RefcntExclusive ==
  /\ \A t, u \in Threads :
       (pc[t] \in {"pin_inc", "unpin_dec"}
          /\ pc[u] \in {"hit_inc", "hit2_inc", "rel_dec"})
         => tb[t] # tb[u]
  /\ \A b \in Bufs : refcnt[b] = Outstanding(b)

HeldShardLocks(t) == {s \in Shards : locks[s] = t}

\* C18: a thread spinning for a bucket lock holds only bucket locks of a
\* higher index than the one it asks for, and no thread ever holds more than
\* two bucket locks.
C18_LockOrder ==
  \A t \in Threads :
    /\ Wants(t) # NIL => \A s \in HeldShardLocks(t) : Wants(t) < s
    /\ Cardinality(HeldShardLocks(t)) <= 2

\* a thread in the i > idx branch holds bucket i's lock and spins for its own
\* bucket's lock, which a thread holding two of the three bucket locks has
C18_Witness ==
  \E t \in Threads :
    /\ pc[t] = "reacq" /\ ti[t] > idx[t]
    /\ HeldShardLocks(t) = {ti[t]}
    /\ locks[idx[t]] \notin {NoThread, t}
    /\ Cardinality(HeldShardLocks(locks[idx[t]])) = 2
    /\ NBUCKETS > 2

RECURSIVE LruWalk(_, _, _)
LruWalk(x, head, fuel) ==
  IF x = head \/ x = NIL \/ fuel = 0 THEN <<>>
  ELSE <<x>> \o LruWalk(next[x], head, fuel - 1)

\* bucket s's LRU list from bcache.lrus[s].next to the end
LruSeq(s) == LruWalk(next[LruHead(s)], LruHead(s), NBUF + NBUCKETS + 1)

\* the buffers binit puts on bucket s's list, in the order of the array
RECURSIVE InArrayOrder(_, _)
InArrayOrder(s, i) ==
  IF i >= NBUF THEN <<>>
  ELSE (IF i % NBUCKETS = s THEN <<i>> ELSE <<>>) \o InArrayOrder(s, i + 1)

\* thread t's step is the brelse that stores refcnt 0 in a buffer of bucket s
ReleasesInto(t, s) ==
  /\ pc[t] = "rel_dec" /\ pc'[t] # "rel_dec"
  /\ refcnt'[tb[t]] = 0
  /\ blockno[tb[t]] % NBUCKETS = s

\* thread t's step takes a victim from bucket s's list, its own or another
TakesFrom(t, s) ==
  \/ pc[t] = "bget_lookup" /\ pc'[t] = "sleep" /\ Found(t) = NIL /\ idx[t] = s
  \/ pc[t] = "recheck" /\ pc'[t] = "steal_ins" /\ ti[t] = s

\* C19: every LRU list is a queue.  It starts with its buffers in array
\* order; a brelse that brings a refcnt to 0 appends the buffer at the end
\* of the list of bucket blockno % NBUCKETS; a victim, local or stolen, is
\* the first buffer of the list it is taken from; nothing else changes a list.
C19_LruOrder ==
  /\ \A s \in Shards : LruSeq(s) = InArrayOrder(s, 0)
  /\ [][\A s \in Shards :
          IF \E t \in Threads : ReleasesInto(t, s)
          THEN \E t \in Threads :
                 ReleasesInto(t, s) /\ LruSeq(s)' = Append(LruSeq(s), tb[t])
          ELSE IF \E t \in Threads : TakesFrom(t, s)
          THEN \E t \in Threads :
                 /\ TakesFrom(t, s)
                 /\ LruSeq(s) # <<>>
                 /\ tb'[t] = Head(LruSeq(s))
                 /\ LruSeq(s)' = Tail(LruSeq(s))
          ELSE LruSeq(s)' = LruSeq(s)]_vars

\* a thread has just taken its victim from another bucket's list and a
\* buffer of lower index is still on that list: the list was in release
\* order, not in array order
C19_Witness ==
  \E t \in Threads :
    /\ pc[t] = "steal_ins"
    /\ \E i \in 1..Len(LruSeq(ti[t])) : LruSeq(ti[t])[i] < tb[t]

\* the step on which binit returns
BinitReturns == \E t \in Threads : pc[t] = "binit_bufs" /\ pc'[t] = "idle"

\* C20: when binit returns, every hash chain is empty, every buffer has
\* refcnt 0 and valid = 0, buffer i is on the LRU list of bucket
\* i % NBUCKETS and on no other, in array order, and the lengths of any two
\* lists differ by at most one.
C20_BinitPost ==
  [][BinitReturns =>
       /\ \A s \in Shards : elems'[s] = NIL /\ Chain(s)' = {}
       /\ \A b \in Bufs : refcnt'[b] = 0 /\ ~valid'[b]
       /\ \A b \in Bufs : \A s \in Shards :
            b \in OnLru(s)' <=> s = b % NBUCKETS
       /\ \A s \in Shards : LruSeq(s)' = InArrayOrder(s, 0)
       /\ \A s1, s2 \in Shards :
            Len(LruSeq(s1)') - Len(LruSeq(s2)') \in {-1, 0, 1}]_vars

\* binit has returned in a build where the buffers do not divide evenly
\* among several buckets: some list is longer than another
C20_Witness ==
  /\ \A t \in Threads : pc[t] = "idle"
  /\ NBUCKETS > 1
  /\ \E s1, s2 \in Shards : Len(LruSeq(s1)) = Len(LruSeq(s2)) + 1
  /\ \E s \in Shards : Len(LruSeq(s)) >= 2

RECURSIVE ChainWalk(_, _)
ChainWalk(x, fuel) ==
  IF x = NIL \/ fuel = 0 THEN <<>>
  ELSE <<x>> \o ChainWalk(next_hash[x], fuel - 1)

\* bucket s's hash chain from bcache.elems[s] along next_hash
ChainSeq(s) == ChainWalk(elems[s], NBUF + NBUCKETS + 1)

\* the step is a btable_insert: a local install or the steal's store
InsertStep ==
  \E t \in Threads :
    \/ pc[t] = "bget_lookup" /\ pc'[t] = "sleep" /\ Found(t) = NIL
    \/ pc[t] = "steal_ins" /\ pc'[t] # "steal_ins"

\* C21: while no bucket lock is held, bucket s's hash chain holds exactly the
\* buffers with refcnt > 0 and blockno % NBUCKETS = s, no buffer is in a
\* chain twice or in two chains, and a btable_insert removes no buffer from
\* any chain.
C21_ChainsWellFormed ==
  /\ [](NoShardLockHeld =>
          /\ \A s \in Shards :
               Chain(s) = {b \in Bufs : refcnt[b] > 0 /\ blockno[b] % NBUCKETS = s}
          /\ \A s \in Shards : \A i, j \in 1..Len(ChainSeq(s)) :
               ChainSeq(s)[i] = ChainSeq(s)[j] => i = j
          /\ \A s1, s2 \in Shards : s1 # s2 => Chain(s1) \cap Chain(s2) = {})
  /\ [][InsertStep => \A s \in Shards : Chain(s) \subseteq Chain(s)']_vars

\* C22: on the step on which a bget calls panic("bget: no buffers"), the LRU
\* list of every bucket is empty.
C22_NoSpuriousPanic ==
  [][\A t \in Threads :
       (pc[t] = "steal" /\ pc'[t] = "panic") => AllListsEmpty]_vars

---------------------------------------------------------------------------
(* The earlier design with one LRU list of all buffers (part_001): the hash
   table bcache.list (here elems) has a lock per bucket, the list hangs off
   bcache.head and is guarded by bcache.lock. *)

GHead == LruHead(0)    \* the node &bcache.head

\* b->next = head.next; b->prev = &head; head.next->prev = b; head.next = b
push_front(L, b, head) ==
  LET nx1 == [L.next EXCEPT ![b] = L.next[head]]
      pv1 == [L.prev EXCEPT ![b] = head]
      pv2 == [pv1 EXCEPT ![nx1[head]] = b]
      nx2 == [nx1 EXCEPT ![head] = b]
  IN [next |-> nx2, prev |-> pv2]

RECURSIVE glru_binit_loop(_, _, _, _)
glru_binit_loop(L, b, n, head) ==
  IF b >= n THEN L ELSE glru_binit_loop(push_front(L, b, head), b + 1, n, head)

\* binit, run once before any thread uses the cache
GlruBinit ==
  /\ \A t \in Threads : pc[t] = "binit"
  /\ LET L == glru_binit_loop([next |-> [next EXCEPT ![GHead] = GHead],
                               prev |-> [prev EXCEPT ![GHead] = GHead]],
                              0, NBUF, GHead)
     IN /\ next' = L.next
        /\ prev' = L.prev
  /\ biglock' = NoThread
  /\ elems' = [s \in Shards |-> NIL]
  /\ nelems' = 0
  /\ locks' = [s \in Shards |-> NoThread]
  /\ slock' = [b \in Nodes |-> NoThread]
  /\ pc' = [t \in Threads |-> "idle"]
  /\ UNCHANGED <<cfg, dev, blockno, valid, refcnt, next_hash, data, disk,
                 panicked, req, tb, idx, ti, rd, slot, held, io, pinned, npin,
                 rt, calls>>

\* bcache.nelems and, through the unlocked refcnt updates, the counts can
\* drift for ever: the callers make OldCalls calls in all
InitGlru ==
  ZeroedWith([NBUF |-> NBufs, NBUCKETS |-> NShards, threads |-> NThreads,
              requests |-> {ROOTDEV} \X (0..MaxBlock), maxheld |-> MaxHeld + 1,
              vals |-> {0}, track |-> FALSE, calls |-> OldCalls])

\* bread(dev, blockno) -> bget(dev, blockno)
GlruCallBread(t) ==
  /\ CanCall(t)
  /\ Spend
  /\ Len(held[t]) < cfg.maxheld
  /\ \E r \in Requests :
       /\ ~Holds(t, r)
       /\ req' = [req EXCEPT ![t] = r]
       /\ idx' = [idx EXCEPT ![t] = r[2] % NBUCKETS]
  /\ pc' = [pc EXCEPT ![t] = "g_acq"]
  /\ io' = [io EXCEPT ![t] = FALSE]
  /\ UNCHANGED <<cfg, nelems, cache, data, disk, locks, biglock, slock,
                 panicked, tb, ti, rd, slot, held, pinned, npin, rt>>

\* acquire(&bcache.locks[blockno%NBUCKETS]);
GlruBgetAcquire(t) ==
  /\ ~panicked /\ pc[t] = "g_acq"
  /\ locks[idx[t]] = NoThread
  /\ locks' = [locks EXCEPT ![idx[t]] = t]
  /\ pc' = [pc EXCEPT ![t] = "g_lookup"]
  /\ UNCHANGED <<cfg, nelems, cache, data, disk, biglock, slock, panicked,
                 req, tb, idx, ti, rd, slot, held, io, pinned, npin, rt, calls>>

\* if ((b = btable_lookup(dev, blockno)) != 0 && b->refcnt != 0) {
GlruBgetHit(t) ==
  /\ ~panicked /\ pc[t] = "g_lookup"
  /\ Found(t) # NIL
  /\ refcnt[Found(t)] # 0
  /\ tb' = [tb EXCEPT ![t] = Found(t)]
  /\ rd' = [rd EXCEPT ![t] = refcnt[Found(t)]]
  /\ pc' = [pc EXCEPT ![t] = "g_hit_ld"]
  /\ UNCHANGED <<cfg, nelems, cache, data, disk, locks, biglock, slock,
                 panicked, req, idx, ti, slot, held, io, pinned, npin, rt,
                 calls>>

\* b->refcnt++ reads b->refcnt, which brelse writes under bcache.lock only:
\* the value is the one the test saw or the one in memory now
GlruBgetHitLoad(t) ==
  /\ ~panicked /\ pc[t] = "g_hit_ld"
  /\ \E v \in {rd[t], refcnt[tb[t]]} : rd' = [rd EXCEPT ![t] = v]
  /\ pc' = [pc EXCEPT ![t] = "g_hit_st"]
  /\ UNCHANGED <<cfg, nelems, cache, data, disk, locks, biglock, slock,
                 panicked, req, tb, idx, ti, slot, held, io, pinned, npin, rt,
                 calls>>

\* b->refcnt++ stores; release(&bcache.locks[blockno%NBUCKETS]);
GlruBgetHitStore(t) ==
  /\ ~panicked /\ pc[t] = "g_hit_st"
  /\ refcnt' = [refcnt EXCEPT ![tb[t]] = rd[t] + 1]
  /\ locks' = [locks EXCEPT ![idx[t]] = NoThread]
  /\ pc' = [pc EXCEPT ![t] = "sleep"]
  /\ UNCHANGED <<cfg, nelems, dev, blockno, valid, next_hash, elems, next,
                 prev, data, disk, biglock, slock, panicked, req, tb, idx, ti,
                 rd, slot, held, io, pinned, npin, rt, calls>>

\* the test fails: the bucket lock stays held; on to acquire(&bcache.lock)
GlruBgetMiss(t) ==
  /\ ~panicked /\ pc[t] = "g_lookup"
  /\ IF Found(t) = NIL THEN TRUE ELSE refcnt[Found(t)] = 0
  /\ pc' = [pc EXCEPT ![t] = "g_big"]
  /\ UNCHANGED <<cfg, nelems, cache, data, disk, locks, biglock, slock,
                 panicked, req, tb, idx, ti, rd, slot, held, io, pinned, npin,
                 rt, calls>>

\* acquire(&bcache.lock); b = bcache.head.prev
GlruBgetBig(t) ==
  /\ ~panicked /\ pc[t] = "g_big"
  /\ biglock = NoThread
  /\ biglock' = t
  /\ tb' = [tb EXCEPT ![t] = prev[GHead]]
  /\ pc' = [pc EXCEPT ![t] = "g_scan"]
  /\ UNCHANGED <<cfg, nelems, cache, data, disk, locks, slock, panicked, req,
                 idx, ti, rd, slot, held, io, pinned, npin, rt, calls>>

\* b != &bcache.head and b->refcnt != 0: b = b->prev
GlruScanSkip(t) ==
  /\ ~panicked /\ pc[t] = "g_scan"
  /\ tb[t] # GHead
  /\ refcnt[tb[t]] # 0
  /\ tb' = [tb EXCEPT ![t] = prev[tb[t]]]
  /\ UNCHANGED <<cfg, nelems, cache, data, disk, locks, biglock, slock,
                 panicked, pc, req, idx, ti, rd, slot, held, io, pinned, npin,
                 rt, calls>>

\* if(b->refcnt == 0) { b->dev = dev; b->blockno = blockno; b->valid = 0;
\* b->refcnt = 1; btable_insert(b); release both locks
GlruScanTake(t) ==
  /\ ~panicked /\ pc[t] = "g_scan"
  /\ tb[t] # GHead
  /\ refcnt[tb[t]] = 0
  /\ LET b == tb[t]
         bn == [blockno EXCEPT ![b] = req[t][2]]
         dv == [dev EXCEPT ![b] = req[t][1]]
         H == btable_insert(dv, bn, next_hash, elems, b)
     IN /\ dev' = dv
        /\ blockno' = bn
        /\ valid' = [valid EXCEPT ![b] = FALSE]
        /\ refcnt' = [refcnt EXCEPT ![b] = 1]
        /\ next_hash' = H.nh
        /\ elems' = H.el
  /\ nelems' = nelems + 1
  /\ locks' = [locks EXCEPT ![idx[t]] = NoThread]
  /\ biglock' = NoThread
  /\ pc' = [pc EXCEPT ![t] = "sleep"]
  /\ UNCHANGED <<cfg, next, prev, data, disk, slock, panicked, req, tb, idx,
                 ti, rd, slot, held, io, pinned, npin, rt, calls>>

\* the loop ends at &bcache.head: panic("bget: no buffers");
GlruBgetPanic(t) ==
  /\ ~panicked /\ pc[t] = "g_scan"
  /\ tb[t] = GHead
  /\ panicked' = TRUE
  /\ pc' = [pc EXCEPT ![t] = "panic"]
  /\ UNCHANGED <<cfg, nelems, cache, data, disk, locks, biglock, slock, req,
                 tb, idx, ti, rd, slot, held, io, pinned, npin, rt, calls>>

\* brelse(b): if(!holdingsleep(&b->lock)) panic("brelse");
\* releasesleep(&b->lock);
GlruCallBrelse(t) ==
  /\ CanCall(t)
  /\ Spend
  /\ \E k \in 1..Len(held[t]) :
       LET b == held[t][k].b IN
       IF slock[b] # t
       THEN /\ panicked' = TRUE
            /\ pc' = [pc EXCEPT ![t] = "panic"]
            /\ UNCHANGED <<slock, tb, held>>
       ELSE /\ slock' = [slock EXCEPT ![b] = NoThread]
            /\ tb' = [tb EXCEPT ![t] = b]
            /\ held' = [held EXCEPT ![t] = RemoveAt(held[t], k)]
            /\ pc' = [pc EXCEPT ![t] = "g_rel_big"]
            /\ UNCHANGED panicked
  /\ UNCHANGED <<cfg, nelems, cache, data, disk, locks, biglock, req, idx, ti,
                 rd, slot, io, pinned, npin, rt>>

\* acquire(&bcache.lock); b->refcnt-- loads
GlruBrelseBig(t) ==
  /\ ~panicked /\ pc[t] = "g_rel_big"
  /\ biglock = NoThread
  /\ biglock' = t
  /\ rd' = [rd EXCEPT ![t] = refcnt[tb[t]]]
  /\ pc' = [pc EXCEPT ![t] = "g_rel_dec"]
  /\ UNCHANGED <<cfg, nelems, cache, data, disk, locks, slock, panicked, req,
                 tb, idx, ti, slot, held, io, pinned, npin, rt, calls>>

\* b->refcnt-- stores
GlruBrelseDec(t) ==
  /\ ~panicked /\ pc[t] = "g_rel_dec"
  /\ refcnt' = [refcnt EXCEPT ![tb[t]] = rd[t] - 1]
  /\ rd' = [rd EXCEPT ![t] = rd[t] - 1]
  /\ pc' = [pc EXCEPT ![t] = "g_rel_tst"]
  /\ UNCHANGED <<cfg, nelems, dev, blockno, valid, next_hash, elems, next,
                 prev, data, disk, locks, biglock, slock, panicked, req, tb,
                 idx, ti, slot, held, io, pinned, npin, rt, calls>>

\* if (b->refcnt == 0) is false, on the value just stored or on the one in
\* memory now: release(&bcache.lock);
GlruBrelseKeep(t) ==
  /\ ~panicked /\ pc[t] = "g_rel_tst"
  /\ \E v \in {rd[t], refcnt[tb[t]]} : v # 0
  /\ biglock' = NoThread
  /\ Return(t)
  /\ UNCHANGED <<cfg, nelems, cache, data, disk, locks, slock, panicked, held,
                 io, pinned, npin, rt, calls>>

\* if (b->refcnt == 0) is true: b moves to bcache.head.next; on to
\* acquire(&bcache.locks[b->blockno%NBUCKETS]) with bcache.lock held
GlruBrelseLast(t) ==
  /\ ~panicked /\ pc[t] = "g_rel_tst"
  /\ \E v \in {rd[t], refcnt[tb[t]]} : v = 0
  /\ LET L == push_front(lru_remove([next |-> next, prev |-> prev], tb[t]),
                         tb[t], GHead)
     IN /\ next' = L.next
        /\ prev' = L.prev
  /\ idx' = [idx EXCEPT ![t] = blockno[tb[t]] % NBUCKETS]
  /\ pc' = [pc EXCEPT ![t] = "g_rel_bkt"]
  /\ UNCHANGED <<cfg, nelems, dev, blockno, valid, refcnt, next_hash, elems,
                 data, disk, locks, biglock, slock, panicked, req, tb, ti, rd,
                 slot, held, io, pinned, npin, rt, calls>>

\* acquire(&bcache.locks[b->blockno%NBUCKETS]);
GlruBrelseBucket(t) ==
  /\ ~panicked /\ pc[t] = "g_rel_bkt"
  /\ locks[idx[t]] = NoThread
  /\ locks' = [locks EXCEPT ![idx[t]] = t]
  /\ pc' = [pc EXCEPT ![t] = "g_rel_rm"]
  /\ UNCHANGED <<cfg, nelems, cache, data, disk, biglock, slock, panicked,
                 req, tb, idx, ti, rd, slot, held, io, pinned, npin, rt, calls>>

\* btable_remove(b); release(&bcache.locks[...]); release(&bcache.lock);
GlruBrelseRemove(t) ==
  /\ ~panicked /\ pc[t] = "g_rel_rm"
  /\ LET b == tb[t]
         H == btable_remove(dev, blockno, next_hash, elems, b)
     IN /\ next_hash' = H.nh
        /\ elems' = H.el
        /\ nelems' = IF btable_find(dev, blockno, next_hash, elems,
                                    dev[b], blockno[b]) # NIL
                     THEN nelems - 1 ELSE nelems
  /\ locks' = [locks EXCEPT ![idx[t]] = NoThread]
  /\ biglock' = NoThread
  /\ Return(t)
  /\ UNCHANGED <<cfg, dev, blockno, valid, refcnt, next, prev, data, disk,
                 slock, panicked, held, io, pinned, npin, rt, calls>>

NextGlru ==
  \/ GlruBinit
  \/ \E t \in Threads : GlruCallBread(t)
  \/ \E t \in Threads : GlruBgetAcquire(t)
  \/ \E t \in Threads : GlruBgetHit(t)
  \/ \E t \in Threads : GlruBgetHitLoad(t)
  \/ \E t \in Threads : GlruBgetHitStore(t)
  \/ \E t \in Threads : GlruBgetMiss(t)
  \/ \E t \in Threads : GlruBgetBig(t)
  \/ \E t \in Threads : GlruScanSkip(t)
  \/ \E t \in Threads : GlruScanTake(t)
  \/ \E t \in Threads : GlruBgetPanic(t)
  \/ \E t \in Threads : BgetSleep(t)
  \/ \E t \in Threads : BreadRead(t)
  \/ \E t \in Threads : BreadCached(t)
  \/ \E t \in Threads : GlruCallBrelse(t)
  \/ \E t \in Threads : GlruBrelseBig(t)
  \/ \E t \in Threads : GlruBrelseDec(t)
  \/ \E t \in Threads : GlruBrelseKeep(t)
  \/ \E t \in Threads : GlruBrelseLast(t)
  \/ \E t \in Threads : GlruBrelseBucket(t)
  \/ \E t \in Threads : GlruBrelseRemove(t)

SpecGlru == InitGlru /\ [][NextGlru]_vars

\* C23: in the global-list design no thread holds a bucket lock and spins
\* for bcache.lock in bget's miss path while another holds bcache.lock and
\* spins for that bucket lock in brelse.
C23_NoLockCycle ==
  \A t, u \in Threads :
    ~ /\ pc[t] = "g_big" /\ locks[idx[t]] = t
      /\ pc[u] = "g_rel_bkt" /\ biglock = u
      /\ idx[u] = idx[t]

---------------------------------------------------------------------------
(* The earliest design (part_000): no hash table; bucket i is the list
   bcache.list[i] (here the node LruHead(i)) of the buffers that belong to
   it, guarded by bcache.locks[i]; stealing is serialised by bcache.lock.
   Each list operation is taken as one step. *)

RECURSIVE blist_binit_loop(_, _, _, _)
blist_binit_loop(L, i, n, k) ==
  IF i >= n THEN L
  ELSE blist_binit_loop(push_front(L, i, n + (i % k)), i + 1, n, k)

\* binit, run once before any thread uses the cache
BlistBinit ==
  /\ \A t \in Threads : pc[t] = "binit"
  /\ LET L == blist_binit_loop(
                [next |-> [x \in Nodes |-> IF x >= NBUF THEN x ELSE next[x]],
                 prev |-> [x \in Nodes |-> IF x >= NBUF THEN x ELSE prev[x]]],
                0, NBUF, NBUCKETS)
     IN /\ next' = L.next
        /\ prev' = L.prev
  /\ biglock' = NoThread
  /\ locks' = [s \in Shards |-> NoThread]
  /\ slock' = [b \in Nodes |-> NoThread]
  /\ pc' = [t \in Threads |-> "idle"]
  /\ UNCHANGED <<cfg, nelems, dev, blockno, valid, refcnt, next_hash, elems,
                 data, disk, panicked, req, tb, idx, ti, rd, slot, held, io,
                 pinned, npin, rt, calls>>

\* one buffer and one block more than the other specifications: a bucket can
\* be without a free buffer while another has two
InitBlist ==
  ZeroedWith([NBUF |-> NBufs + 1, NBUCKETS |-> NShards, threads |-> NThreads,
              requests |-> {ROOTDEV} \X (0..(MaxBlock + 1)),
              maxheld |-> MaxHeld + 1,
              vals |-> {0}, track |-> FALSE, calls |-> OldCalls])

\* for (b = list[bkt].next; b != &list[bkt]; b = b->next)
\*   if (b->dev == dev && b->blockno == blockno): the first such b, or NIL
RECURSIVE blist_find(_, _, _, _, _)
blist_find(x, head, d, n, fuel) ==
  IF x = head \/ x = NIL \/ fuel = 0 THEN NIL
  ELSE IF dev[x] = d /\ blockno[x] = n THEN x
  ELSE blist_find(next[x], head, d, n, fuel - 1)

\* for (b = list[i].prev; b != &list[i]; b = b->prev)
\*   if (b->refcnt == 0): the first such b, or NIL
RECURSIVE blist_free(_, _, _)
blist_free(x, head, fuel) ==
  IF x = head \/ x = NIL \/ fuel = 0 THEN NIL
  ELSE IF refcnt[x] = 0 THEN x
  ELSE blist_free(prev[x], head, fuel - 1)

BlistFound(t) ==
  blist_find(next[LruHead(idx[t])], LruHead(idx[t]), req[t][1], req[t][2],
             NBUF + NBUCKETS + 1)

BlistFree(i) == blist_free(prev[LruHead(i)], LruHead(i), NBUF + NBUCKETS + 1)

\* bread(dev, blockno) -> bget(dev, blockno); int bkt = blockno % NBUCKETS
BlistCallBread(t) ==
  /\ CanCall(t)
  /\ Spend
  /\ Len(held[t]) < cfg.maxheld
  /\ \E r \in Requests :
       /\ ~Holds(t, r)
       /\ req' = [req EXCEPT ![t] = r]
       /\ idx' = [idx EXCEPT ![t] = r[2] % NBUCKETS]
  /\ pc' = [pc EXCEPT ![t] = "l_acq"]
  /\ io' = [io EXCEPT ![t] = FALSE]
  /\ UNCHANGED <<cfg, nelems, cache, data, disk, locks, biglock, slock,
                 panicked, tb, ti, rd, slot, held, pinned, npin, rt>>

\* acquire(&bcache.locks[bkt]);
BlistBgetAcquire(t) ==
  /\ ~panicked /\ pc[t] = "l_acq"
  /\ locks[idx[t]] = NoThread
  /\ locks' = [locks EXCEPT ![idx[t]] = t]
  /\ pc' = [pc EXCEPT ![t] = "l_lookup"]
  /\ UNCHANGED <<cfg, nelems, cache, data, disk, biglock, slock, panicked,
                 req, tb, idx, ti, rd, slot, held, io, pinned, npin, rt, calls>>

\* the block is in the bucket: b->refcnt++; release(&bcache.locks[bkt]);
BlistBgetHit(t) ==
  /\ ~panicked /\ pc[t] = "l_lookup"
  /\ BlistFound(t) # NIL
  /\ tb' = [tb EXCEPT ![t] = BlistFound(t)]
  /\ refcnt' = [refcnt EXCEPT ![BlistFound(t)] = refcnt[BlistFound(t)] + 1]
  /\ locks' = [locks EXCEPT ![idx[t]] = NoThread]
  /\ pc' = [pc EXCEPT ![t] = "sleep"]
  /\ UNCHANGED <<cfg, nelems, dev, blockno, valid, next_hash, elems, next,
                 prev, data, disk, biglock, slock, panicked, req, idx, ti, rd,
                 slot, held, io, pinned, npin, rt, calls>>

\* not in the bucket, and the bucket has a buffer with refcnt 0: recycle it
BlistBgetLocal(t) ==
  /\ ~panicked /\ pc[t] = "l_lookup"
  /\ BlistFound(t) = NIL
  /\ BlistFree(idx[t]) # NIL
  /\ LET b == BlistFree(idx[t])
     IN /\ dev' = [dev EXCEPT ![b] = req[t][1]]
        /\ blockno' = [blockno EXCEPT ![b] = req[t][2]]
        /\ valid' = [valid EXCEPT ![b] = FALSE]
        /\ refcnt' = [refcnt EXCEPT ![b] = 1]
        /\ tb' = [tb EXCEPT ![t] = b]
  /\ locks' = [locks EXCEPT ![idx[t]] = NoThread]
  /\ pc' = [pc EXCEPT ![t] = "sleep"]
  /\ UNCHANGED <<cfg, nelems, next_hash, elems, next, prev, data, disk,
                 biglock, slock, panicked, req, idx, ti, rd, slot, held, io,
                 pinned, npin, rt, calls>>

\* not in the bucket and no free buffer there: release(&bcache.locks[bkt]);
BlistBgetMiss(t) ==
  /\ ~panicked /\ pc[t] = "l_lookup"
  /\ BlistFound(t) = NIL
  /\ BlistFree(idx[t]) = NIL
  /\ locks' = [locks EXCEPT ![idx[t]] = NoThread]
  /\ pc' = [pc EXCEPT ![t] = "l_big"]
  /\ UNCHANGED <<cfg, nelems, cache, data, disk, biglock, slock, panicked,
                 req, tb, idx, ti, rd, slot, held, io, pinned, npin, rt, calls>>

\* acquire(&bcache.lock); i = 0
BlistBgetBig(t) ==
  /\ ~panicked /\ pc[t] = "l_big"
  /\ biglock = NoThread
  /\ biglock' = t
  /\ ti' = [ti EXCEPT ![t] = Skip(0, idx[t])]
  /\ pc' = [pc EXCEPT ![t] = "l_steal"]
  /\ UNCHANGED <<cfg, nelems, cache, data, disk, locks, slock, panicked, req,
                 tb, idx, rd, slot, held, io, pinned, npin, rt, calls>>

\* acquire(&bcache.locks[i]);
BlistStealAcquire(t) ==
  /\ ~panicked /\ pc[t] = "l_steal"
  /\ ti[t] < NBUCKETS
  /\ locks[ti[t]] = NoThread
  /\ locks' = [locks EXCEPT ![ti[t]] = t]
  /\ pc' = [pc EXCEPT ![t] = "l_scan"]
  /\ UNCHANGED <<cfg, nelems, cache, data, disk, biglock, slock, panicked,
                 req, tb, idx, ti, rd, slot, held, io, pinned, npin, rt, calls>>

\* bucket i has a buffer with refcnt 0: move it to the front of list bkt,
\* give it the identity, release(&bcache.lock); release(&bcache.locks[i]);
BlistStealTake(t) ==
  /\ ~panicked /\ pc[t] = "l_scan"
  /\ BlistFree(ti[t]) # NIL
  /\ LET b == BlistFree(ti[t])
         L == push_front(lru_remove([next |-> next, prev |-> prev], b),
                         b, LruHead(idx[t]))
     IN /\ next' = L.next
        /\ prev' = L.prev
        /\ dev' = [dev EXCEPT ![b] = req[t][1]]
        /\ blockno' = [blockno EXCEPT ![b] = req[t][2]]
        /\ valid' = [valid EXCEPT ![b] = FALSE]
        /\ refcnt' = [refcnt EXCEPT ![b] = 1]
        /\ tb' = [tb EXCEPT ![t] = b]
  /\ biglock' = NoThread
  /\ locks' = [locks EXCEPT ![ti[t]] = NoThread]
  /\ pc' = [pc EXCEPT ![t] = "sleep"]
  /\ UNCHANGED <<cfg, nelems, next_hash, elems, data, disk, slock, panicked,
                 req, idx, ti, rd, slot, held, io, pinned, npin, rt, calls>>

\* bucket i has none: release(&bcache.locks[i]); next i
BlistStealNext(t) ==
  /\ ~panicked /\ pc[t] = "l_scan"
  /\ BlistFree(ti[t]) = NIL
  /\ locks' = [locks EXCEPT ![ti[t]] = NoThread]
  /\ ti' = [ti EXCEPT ![t] = Skip(ti[t] + 1, idx[t])]
  /\ pc' = [pc EXCEPT ![t] = "l_steal"]
  /\ UNCHANGED <<cfg, nelems, cache, data, disk, biglock, slock, panicked,
                 req, tb, idx, rd, slot, held, io, pinned, npin, rt, calls>>

\* the loop ends: panic("bget: no buffers");
BlistBgetPanic(t) ==
  /\ ~panicked /\ pc[t] = "l_steal"
  /\ ti[t] >= NBUCKETS
  /\ panicked' = TRUE
  /\ pc' = [pc EXCEPT ![t] = "panic"]
  /\ UNCHANGED <<cfg, nelems, cache, data, disk, locks, biglock, slock, req,
                 tb, idx, ti, rd, slot, held, io, pinned, npin, rt, calls>>

\* brelse(b): if(!holdingsleep(&b->lock)) panic("brelse");
\* releasesleep(&b->lock); int bkt = b->blockno % NBUCKETS;
BlistCallBrelse(t) ==
  /\ CanCall(t)
  /\ Spend
  /\ \E k \in 1..Len(held[t]) :
       LET b == held[t][k].b IN
       IF slock[b] # t
       THEN /\ panicked' = TRUE
            /\ pc' = [pc EXCEPT ![t] = "panic"]
            /\ UNCHANGED <<slock, tb, idx, held>>
       ELSE /\ slock' = [slock EXCEPT ![b] = NoThread]
            /\ tb' = [tb EXCEPT ![t] = b]
            /\ idx' = [idx EXCEPT ![t] = blockno[b] % NBUCKETS]
            /\ held' = [held EXCEPT ![t] = RemoveAt(held[t], k)]
            /\ pc' = [pc EXCEPT ![t] = "l_rel_acq"]
            /\ UNCHANGED panicked
  /\ UNCHANGED <<cfg, nelems, cache, data, disk, locks, biglock, req, ti, rd,
                 slot, io, pinned, npin, rt>>

\* acquire(&bcache.locks[bkt]);
BlistBrelseAcquire(t) ==
  /\ ~panicked /\ pc[t] = "l_rel_acq"
  /\ locks[idx[t]] = NoThread
  /\ locks' = [locks EXCEPT ![idx[t]] = t]
  /\ pc' = [pc EXCEPT ![t] = "l_rel_dec"]
  /\ UNCHANGED <<cfg, nelems, cache, data, disk, biglock, slock, panicked,
                 req, tb, idx, ti, rd, slot, held, io, pinned, npin, rt, calls>>

\* b->refcnt--; if (b->refcnt == 0) b moves to the front of list bkt;
\* release(&bcache.locks[bkt]);
BlistBrelseDec(t) ==
  /\ ~panicked /\ pc[t] = "l_rel_dec"
  /\ LET b == tb[t]
         L == push_front(lru_remove([next |-> next, prev |-> prev], b),
                         b, LruHead(idx[t]))
     IN /\ refcnt' = [refcnt EXCEPT ![b] = refcnt[b] - 1]
        /\ IF refcnt[b] - 1 = 0
           THEN next' = L.next /\ prev' = L.prev
           ELSE UNCHANGED <<next, prev>>
  /\ locks' = [locks EXCEPT ![idx[t]] = NoThread]
  /\ Return(t)
  /\ UNCHANGED <<cfg, nelems, dev, blockno, valid, next_hash, elems, data,
                 disk, biglock, slock, panicked, held, io, pinned, npin, rt,
                 calls>>

NextBlist ==
  \/ BlistBinit
  \/ \E t \in Threads : BlistCallBread(t)
  \/ \E t \in Threads : BlistBgetAcquire(t)
  \/ \E t \in Threads : BlistBgetHit(t)
  \/ \E t \in Threads : BlistBgetLocal(t)
  \/ \E t \in Threads : BlistBgetMiss(t)
  \/ \E t \in Threads : BlistBgetBig(t)
  \/ \E t \in Threads : BlistStealAcquire(t)
  \/ \E t \in Threads : BlistStealTake(t)
  \/ \E t \in Threads : BlistStealNext(t)
  \/ \E t \in Threads : BlistBgetPanic(t)
  \/ \E t \in Threads : BgetSleep(t)
  \/ \E t \in Threads : BreadRead(t)
  \/ \E t \in Threads : BreadCached(t)
  \/ \E t \in Threads : BlistCallBrelse(t)
  \/ \E t \in Threads : BlistBrelseAcquire(t)
  \/ \E t \in Threads : BlistBrelseDec(t)

SpecBlist == InitBlist /\ [][NextBlist]_vars

\* C24: in the per-bucket-list design no two buffers with refcnt > 0 carry
\* the same (dev, blockno).
C24_OneBufferPerBlock ==
  \A b1, b2 \in Bufs :
    (b1 # b2 /\ refcnt[b1] > 0 /\ refcnt[b2] > 0)
      => (dev[b1] # dev[b2] \/ blockno[b1] # blockno[b2])

=============================================================================
